---- MODULE Spec2Model ----
(***************************************************************************)
(* EIT section filter of VDR (eit.c): the section gate (cEitTables), the   *)
(* event reconciliation done by the constructor cEIT::cEIT, and the state  *)
(* of the one schedule and channel it works on.                            *)
(*                                                                         *)
(* One call of cEIT::cEIT is one step of the model.  The section it is     *)
(* given (header and event records) and the answers of its collaborators   *)
(* (clock, store locks, channel lookup, EPG handlers) are the inputs of    *)
(* that step.  The classes the constructor calls but eit.c does not        *)
(* define (cSectionSyncer, cSchedule, cEvent, cChannel) are modelled after *)
(* their description in the specification.                                 *)
(***************************************************************************)
EXTENDS Integers, Sequences, FiniteSets, TLC

\* -------------------------------------------------------------------------
\* Program constants
\* -------------------------------------------------------------------------

\* #define VALID_TIME (31536000 * 2)
VALID_TIME == 63072000

\* EPG_LINGER_TIME: how long an event that has ended is still kept
EPG_LINGER_TIME == 3600

\* table ids
TidPresentFollowing == 78
TidSchedActualFirst == 80
TidSchedOtherFirst == 96

\* SI::RunningStatus
RunningStatusUndefined == 0
RunningStatusNotRunning == 1
RunningStatusStartsInAFewSeconds == 2
RunningStatusPausing == 3
RunningStatusRunning == 4

\* number of section syncers of one cEitTables: 0x4E, 0x50..0x5F, 0x60..0x6F
NumEitTables == 33

\* the table id a new cEvent carries until a section sets it
TidNone == 255

\* MaxEventContents: the number of content codes an event keeps
MaxEventContents == 4

\* SI::LinkageTypePremiere
LinkageTypePremiere == 176

\* -------------------------------------------------------------------------
\* Bounds of the model
\* -------------------------------------------------------------------------

\* the largest number of events the schedule holds
MaxSchedule == 2

\* the highest section number of a table
MaxSection == 1

\* the seconds the system clock may get ahead of its first reading
MaxClock == 602

\* the seconds that pass while the filter is watched
MaxTicks == 2

\* the number of time sections that arrive
MaxObservations == 4

\* -------------------------------------------------------------------------
\* Helpers
\* -------------------------------------------------------------------------

Min(a, b) == IF a < b THEN a ELSE b

Max(a, b) == IF a > b THEN a ELSE b

\* (Tid & 0xF0)
HighNibble(tid) == (tid \div 16) * 16

\* the indices of the elements of s that satisfy Test
Matching(s, Test(_)) == {i \in DOMAIN s : Test(s[i])}

\* the smallest element of a non-empty set of numbers
Least(S) == CHOOSE x \in S : \A y \in S : x <= y

\* -------------------------------------------------------------------------
\* cSectionSyncer: which sections of the current version have been seen
\* -------------------------------------------------------------------------

SyncerInit == [version |-> -1, seen |-> {}, complete |-> FALSE]

\* Check(Version, SectionNumber): the syncer afterwards
SyncerCheckState(s, Version) ==
    IF Version # s.version
      THEN [version |-> Version, seen |-> {}, complete |-> FALSE]
      ELSE s

\* Check(Version, SectionNumber): the result
SyncerCheckResult(s, Version, SectionNumber) ==
    IF Version # s.version THEN TRUE
    ELSE SectionNumber \notin s.seen

\* the last section number that has to be seen, given both bounds
EffectiveLast(LastSectionNumber, SegmentLastSectionNumber) ==
    Min(LastSectionNumber, SegmentLastSectionNumber)

\* Processed(SectionNumber, LastSectionNumber, SegmentLastSectionNumber)
SyncerProcessed(s, SectionNumber, LastSectionNumber, SegmentLastSectionNumber) ==
    LET seen == s.seen \cup {SectionNumber}
    IN  [version |-> s.version,
         seen |-> seen,
         complete |-> \A n \in 0..EffectiveLast(LastSectionNumber, SegmentLastSectionNumber) :
                         n \in seen]

SyncerComplete(s) == s.complete

\* -------------------------------------------------------------------------
\* cEitTables
\* -------------------------------------------------------------------------

\* cEitTables::Index
Index(TableId) ==
    IF TableId < TidSchedActualFirst THEN 0
    ELSE IF TableId < TidSchedOtherFirst THEN TableId - TidSchedActualFirst + 1
    ELSE TableId - TidSchedOtherFirst + 17

\* cEitTables::cEitTables
EitTablesInit ==
    [sectionSyncer |-> [i \in 0..(NumEitTables - 1) |-> SyncerInit],
     complete |-> FALSE,
     tableStart |-> 0,
     tableEnd |-> 0]

\* cEitTables::Check: the result
EitTablesCheckResult(t, TableId, Version, SectionNumber) ==
    SyncerCheckResult(t.sectionSyncer[Index(TableId)], Version, SectionNumber)

\* faulty variant: Check marks the section as processed
EitTablesCheckMarks(t, TableId, Version, SectionNumber) ==
    [t EXCEPT !.sectionSyncer[Index(TableId)] =
                 [SyncerCheckState(@, Version) EXCEPT !.seen = @ \cup {SectionNumber}]]

\* cEitTables::Check: the tables afterwards
EitTablesCheck(t, TableId, Version, SectionNumber) ==
    [t EXCEPT !.sectionSyncer[Index(TableId)] = SyncerCheckState(@, Version)]

\* cEitTables::Processed: the result
EitTablesProcessedResult(t, TableId, SectionNumber, LastSectionNumber, SegmentLastSectionNumber) ==
    SyncerComplete(SyncerProcessed(t.sectionSyncer[Index(TableId)], SectionNumber,
                                   LastSectionNumber, SegmentLastSectionNumber))

\* faulty variant: complete as soon as the table with TableId is
EitTablesProcessedOneTable(t, TableId, LastTableId, SectionNumber, LastSectionNumber, SegmentLastSectionNumber) ==
    LET ti == Index(TableId)
        syncers == [t.sectionSyncer EXCEPT
                      ![ti] = SyncerProcessed(@, SectionNumber, LastSectionNumber,
                                              SegmentLastSectionNumber)]
    IN  [t EXCEPT !.sectionSyncer = syncers,
                  !.complete = SyncerComplete(syncers[ti])]

\* cEitTables::Processed: the tables afterwards
EitTablesProcessed(t, TableId, LastTableId, SectionNumber, LastSectionNumber, SegmentLastSectionNumber) ==
    LET ti == Index(TableId)
        LastIndex == Index(LastTableId)
        syncers == [t.sectionSyncer EXCEPT
                      ![ti] = SyncerProcessed(@, SectionNumber, LastSectionNumber,
                                              SegmentLastSectionNumber)]
    IN  [t EXCEPT !.sectionSyncer = syncers,
                  !.complete = /\ SyncerComplete(syncers[ti])
                               /\ \A i \in 0..LastIndex : SyncerComplete(syncers[i])]

\* -------------------------------------------------------------------------
\* cEvent, cSchedule, cChannel
\* -------------------------------------------------------------------------

\* cEvent::cEvent(EventID), followed by SetStartTime and SetDuration
NewEvent(EventID, StartTime, Duration) ==
    [eventID |-> EventID,
     startTime |-> StartTime,
     duration |-> Duration,
     tableID |-> TidNone,
     version |-> 255,
     runningStatus |-> RunningStatusUndefined,
     seen |-> FALSE,
     title |-> 0,
     shortText |-> 0,
     description |-> <<>>,
     contents |-> <<>>,
     parentalRating |-> 0,
     components |-> <<>>]

EndTime(e) == e.startTime + e.duration

\* cSchedules::GetSchedule(Channel, true) on a channel that has no schedule yet
ScheduleInit ==
    [present |-> FALSE, events |-> <<>>, onActualTp |-> FALSE, presentSeen |-> FALSE]

\* cSchedule::GetEventById: the position of the event, 0 for none
GetEventById(events, EventID) ==
    LET m == Matching(events, LAMBDA e : e.eventID = EventID)
    IN  IF m = {} THEN 0 ELSE Least(m)

\* cSchedule::GetEventByTime: the position of the event, 0 for none
GetEventByTime(events, StartTime) ==
    LET m == Matching(events, LAMBDA e : e.startTime = StartTime)
    IN  IF m = {} THEN 0 ELSE Least(m)

\* cSchedule::OnActualTp: the flag afterwards (it is also the result)
OnActualTp(onActualTp, TableId) ==
    IF HighNibble(TableId) = TidSchedActualFirst THEN TRUE ELSE onActualTp

\* cSchedule::SetRunningStatus: the events afterwards; p = 0 is an event
\* that is not in the schedule
SetRunningStatus(events, p, RunningStatus) ==
    IF p = 0 THEN events
    ELSE [events EXCEPT ![p].runningStatus = RunningStatus]

\* cSchedule::ClrRunningStatus: the events afterwards
ClrRunningStatus(events) ==
    [i \in DOMAIN events |->
       IF events[i].runningStatus >= RunningStatusPausing
         THEN [events[i] EXCEPT !.runningStatus = RunningStatusNotRunning]
         ELSE events[i]]

HasRunning(events) ==
    \E i \in DOMAIN events : events[i].runningStatus >= RunningStatusPausing

\* cSchedule::Sort: order by start time, keeping the order of equal ones
RECURSIVE SortEvents(_)
SortEvents(events) ==
    IF events = <<>> THEN <<>>
    ELSE LET first == Least({events[i].startTime : i \in DOMAIN events})
             at == Least(Matching(events, LAMBDA e : e.startTime = first))
             rest == [i \in 1..(Len(events) - 1) |->
                        IF i < at THEN events[i] ELSE events[i + 1]]
         IN  <<events[at]>> \o SortEvents(rest)

\* whether DropOutdated removes the event
IsOutdated(e, SegmentStart, SegmentEnd, LingerLimit) ==
    /\ EndTime(e) < SegmentStart \/ e.startTime > SegmentEnd
    /\ ~(EndTime(e) > LingerLimit)

\* cSchedule::DropOutdated
DropOutdated(events, SegmentStart, SegmentEnd, LingerLimit) ==
    SelectSeq(events, LAMBDA e : ~IsOutdated(e, SegmentStart, SegmentEnd, LingerLimit))

\* the channel of the section, and the one channel a linkage may point to
ChannelInit == [portalName |-> 0, linkChannels |-> {}]

OtherChannelInit == [exists |-> FALSE, name |-> 0]

\* cChannel::SetPortalName, cChannel::SetName, cChannel::SetLinkChannels
\* report whether they changed the channel
SetPortalName(channel, name) == [channel EXCEPT !.portalName = name]

SetLinkChannels(channel, links) == [channel EXCEPT !.linkChannels = links]

\* -------------------------------------------------------------------------
\* Descriptors of an event record of a section
\* -------------------------------------------------------------------------

\* the number of languages I18nIsPreferredLanguage knows; a language is
\* given by its rank in Setup.EPGLanguages, -1 for one that is not listed
NumLanguages == 2

Descriptor(tag, lang, a, b, c, d, loop) ==
    [tag |-> tag, lang |-> lang, a |-> a, b |-> b, c |-> c, d |-> d, loop |-> loop]

ShortEventDescriptor(lang, name, text) ==
    Descriptor("ShortEvent", lang, name, text, 0, 0, <<>>)

ExtendedEventDescriptor(lang, number, last, text) ==
    Descriptor("ExtendedEvent", lang, number, last, text, 0, <<>>)

\* nibbles: a sequence of <<level1, level2>>
ContentDescriptor(nibbles) ==
    Descriptor("Content", 0, 0, 0, 0, 0, nibbles)

\* ratings: a sequence of <<language, rating byte>>
ParentalRatingDescriptor(ratings) ==
    Descriptor("ParentalRating", 0, 0, 0, 0, 0, ratings)

\* target: 0 for the channel of the section, 1 for the other channel
LinkageDescriptor(type, target, name) ==
    Descriptor("Linkage", 0, type, target, name, 0, <<>>)

ComponentDescriptor(stream, ext, type, lang, description) ==
    Descriptor("Component", lang, stream, ext, type, description, <<>>)

\* I18nIsPreferredLanguage(Setup.EPGLanguages, code, OldPreference): the result
IsPreferredLanguage(lang, OldPreference) ==
    \/ lang >= 0 /\ (OldPreference < 0 \/ lang < OldPreference)
    \/ OldPreference < 0

\* I18nIsPreferredLanguage: OldPreference afterwards
NewPreference(lang, OldPreference) ==
    IF lang >= 0 /\ (OldPreference < 0 \/ lang < OldPreference) THEN lang
    ELSE IF OldPreference < 0 THEN NumLanguages
    ELSE OldPreference

\* the switch on the parental rating byte
ParentalRating(raw) ==
    LET r == raw % 256
    IN  IF 1 <= r /\ r <= 15 THEN r + 3
        ELSE IF r = 17 THEN 10
        ELSE IF r = 18 THEN 12
        ELSE IF r = 19 THEN 16
        ELSE 0

\* the content codes of a content descriptor, MaxEventContents of them
Contents(nibbles) ==
    [i \in 1..MaxEventContents |->
       IF i <= Len(nibbles)
         THEN ((nibbles[i][1] % 16) * 16) + (nibbles[i][2] % 16)
         ELSE 0]

\* the loop over the ratings of a parental rating descriptor: the rating
\* the event has afterwards
RECURSIVE RatingLoop(_, _, _)
RatingLoop(rating, ratings, LanguagePreferenceRating) ==
    IF ratings = <<>> THEN rating
    ELSE LET lang == Head(ratings)[1]
         IN  RatingLoop(IF IsPreferredLanguage(lang, LanguagePreferenceRating)
                          THEN ParentalRating(Head(ratings)[2])
                          ELSE rating,
                        Tail(ratings),
                        NewPreference(lang, LanguagePreferenceRating))

\* whether a component descriptor is one of the known stream kinds
IsKnownComponent(Stream, Ext, Type) ==
    \/ 1 <= Stream /\ Stream <= 6 /\ Type # 0
    \/ Stream = 9 /\ Ext < 2

\* the locals of the descriptor loop of one event
DescriptorLocals(pe, channel, other) ==
    [pe |-> pe,
     channel |-> channel,
     other |-> other,
     ChannelsModified |-> FALSE,
     LanguagePreferenceShort |-> -1,
     LanguagePreferenceExt |-> -1,
     UseExtendedEventDescriptor |-> FALSE,
     ExtendedEventDescriptors |-> <<>>,
     HasShortEventDescriptor |-> FALSE,
     ShortName |-> 0,
     ShortText |-> 0,
     LinkChannels |-> {},
     Components |-> <<>>]

\* case SI::ExtendedEventDescriptorTag
CaseExtendedEvent(D, d) ==
    LET fresh == IsPreferredLanguage(d.lang, D.LanguagePreferenceExt)
                   \/ D.ExtendedEventDescriptors = <<>>
        use == fresh \/ D.UseExtendedEventDescriptor
        base == IF fresh THEN <<>> ELSE D.ExtendedEventDescriptors
    IN  [D EXCEPT
           !.LanguagePreferenceExt = NewPreference(d.lang, @),
           !.ExtendedEventDescriptors = IF use THEN Append(base, d.c) ELSE base,
           !.UseExtendedEventDescriptor = IF d.a = d.b THEN FALSE ELSE use]

\* case SI::ShortEventDescriptorTag
CaseShortEvent(D, d) ==
    LET take == IsPreferredLanguage(d.lang, D.LanguagePreferenceShort)
                  \/ ~D.HasShortEventDescriptor
    IN  [D EXCEPT
           !.LanguagePreferenceShort = NewPreference(d.lang, @),
           !.HasShortEventDescriptor = TRUE,
           !.ShortName = IF take THEN d.a ELSE @,
           !.ShortText = IF take THEN d.b ELSE @]

\* case SI::ContentDescriptorTag
CaseContent(D, d) == [D EXCEPT !.pe.contents = Contents(d.loop)]

\* case SI::ParentalRatingDescriptorTag
CaseParentalRating(D, d) ==
    [D EXCEPT !.pe.parentalRating = RatingLoop(@, d.loop, -1)]

\* case SI::LinkageDescriptorTag
CaseLinkage(D, d, StartTime, Duration, Now, UpdateChannels) ==
    LET hit == StartTime <= Now /\ Now < StartTime + Duration
    IN  IF ~(d.a = LinkageTypePremiere /\ hit) THEN D
        ELSE IF d.b = 0
          THEN \* the link is the channel itself
               [D EXCEPT !.channel = SetPortalName(@, d.c),
                         !.ChannelsModified = @ \/ D.channel.portalName # d.c]
        ELSE IF D.other.exists
          THEN IF UpdateChannels = 1 \/ UpdateChannels >= 3
                 THEN [D EXCEPT !.other.name = d.c,
                                !.ChannelsModified = @ \/ D.other.name # d.c,
                                !.LinkChannels = @ \cup {1}]
                 ELSE [D EXCEPT !.LinkChannels = @ \cup {1}]
        ELSE IF UpdateChannels >= 4
          THEN [D EXCEPT !.other = [exists |-> TRUE, name |-> d.c],
                         !.ChannelsModified = TRUE,
                         !.LinkChannels = @ \cup {1}]
        ELSE D

\* case SI::ComponentDescriptorTag
CaseComponent(D, d) ==
    IF IsKnownComponent(d.a, d.b, d.c)
      THEN [D EXCEPT !.Components =
              Append(@, <<IF d.a = 9 THEN d.a + 16 * d.b ELSE d.a, d.c, d.lang, d.d>>)]
      ELSE D

\* the switch on the descriptor tag
DescriptorCase(D, d, StartTime, Duration, Now, UpdateChannels) ==
    CASE d.tag = "ExtendedEvent" -> CaseExtendedEvent(D, d)
      [] d.tag = "ShortEvent" -> CaseShortEvent(D, d)
      [] d.tag = "Content" -> CaseContent(D, d)
      [] d.tag = "ParentalRating" -> CaseParentalRating(D, d)
      [] d.tag = "Linkage" -> CaseLinkage(D, d, StartTime, Duration, Now, UpdateChannels)
      [] d.tag = "Component" -> CaseComponent(D, d)
      [] OTHER -> D

\* the loop over the descriptors of an event
RECURSIVE DescriptorLoop(_, _, _, _, _, _)
DescriptorLoop(D, ds, StartTime, Duration, Now, UpdateChannels) ==
    IF ds = <<>> THEN D
    ELSE DescriptorLoop(DescriptorCase(D, Head(ds), StartTime, Duration, Now, UpdateChannels),
                        Tail(ds), StartTime, Duration, Now, UpdateChannels)

\* what follows the descriptor loop: texts, components, link channels
ApplyDescriptors(D) ==
    LET pe == [D.pe EXCEPT
                 !.title = IF D.HasShortEventDescriptor THEN D.ShortName ELSE 0,
                 !.shortText = IF D.HasShortEventDescriptor THEN D.ShortText ELSE 0,
                 !.description = D.ExtendedEventDescriptors,
                 !.components = D.Components]
    IN  IF D.LinkChannels # {}
          THEN [D EXCEPT !.pe = pe,
                         !.channel = SetLinkChannels(@, D.LinkChannels),
                         !.ChannelsModified = @ \/ D.channel.linkChannels # D.LinkChannels]
          ELSE [D EXCEPT !.pe = pe]

\* -------------------------------------------------------------------------
\* cEIT::cEIT: the loop over the event records of a section
\* -------------------------------------------------------------------------

\* faulty variant: the present section takes every "not running" as it is
EffectiveRunningStatusNoPausing(RunningStatus, Prior, SectionNumber) ==
    IF RunningStatus # Prior /\ RunningStatus = RunningStatusNotRunning
         /\ SectionNumber # 0
      THEN RunningStatusUndefined
      ELSE RunningStatus

\* faulty variant: the following section takes every "not running" as it is
EffectiveRunningStatusNoFollowing(RunningStatus, Prior, SectionNumber) ==
    IF RunningStatus # Prior /\ RunningStatus = RunningStatusNotRunning
         /\ SectionNumber = 0 /\ Prior = RunningStatusPausing
      THEN RunningStatusPausing
      ELSE RunningStatus

\* faulty variant: "not running" never replaces the status of the present event
EffectiveRunningStatusKeepsPrior(RunningStatus, Prior, SectionNumber) ==
    IF RunningStatus # Prior /\ RunningStatus = RunningStatusNotRunning
      THEN IF SectionNumber = 0 THEN Prior ELSE RunningStatusUndefined
      ELSE RunningStatus

\* the running status handed to cSchedule::SetRunningStatus for an event
\* whose stored status is Prior, when the section reports RunningStatus
EffectiveRunningStatus(RunningStatus, Prior, SectionNumber) ==
    IF RunningStatus # Prior /\ RunningStatus = RunningStatusNotRunning
      THEN IF SectionNumber = 0
             THEN IF Prior = RunningStatusPausing
                    THEN RunningStatusPausing
                    ELSE RunningStatus
             ELSE RunningStatusUndefined
      ELSE RunningStatus

\* faulty variant: every table looks its events up by id
FindEventByIdOnly(events, Tid, EventId, StartTime) == GetEventById(events, EventId)

\* the lookup of the event a record is about
FindEvent(events, Tid, EventId, StartTime) ==
    IF Tid = TidPresentFollowing \/ HighNibble(Tid) = TidSchedActualFirst
      THEN GetEventById(events, EventId)
      ELSE GetEventByTime(events, StartTime)

\* faulty variant: no event is kept as it is
IsProtectedNever(TableID, Tid) == FALSE

\* faulty variant: the events of other tables are kept from present/following
IsProtectedFromPresent(TableID, Tid) ==
    TableID # TidPresentFollowing /\ Tid = TidPresentFollowing

\* whether an existing event is kept as it is: present/following is never
\* overwritten with events from other tables
IsProtected(TableID, Tid) ==
    Max(TableID, TidPresentFollowing) = TidPresentFollowing /\ Tid # TidPresentFollowing

\* faulty variant: every section that writes an event leaves its table id
NewTableIDAlways(TableID, Tid) == Tid

\* the table id an event carries after a section with table id Tid wrote it
NewTableID(TableID, Tid) ==
    IF TableID > TidPresentFollowing THEN Tid ELSE TableID

\* whether an event record is dropped as bogus
IsBogus(StartTime, Duration) ==
    StartTime = 0 \/ (StartTime > 0 /\ Duration = 0)

\* the locals of cEIT::cEIT before the loop over the events
LoopInit(st) ==
    [events |-> st.sched.events,
     channel |-> st.channel,
     other |-> st.other,
     tableStart |-> st.tables.tableStart,
     tableEnd |-> st.tables.tableEnd,
     ChannelsModified |-> FALSE,
     Empty |-> TRUE,
     Modified |-> FALSE,
     SegmentStart |-> 0,
     SegmentEnd |-> 0,
     applied |-> <<>>,
     found |-> <<>>]

\* faulty variant: Modified stays as it was
ModifiedAfterRecordKept(Modified) == Modified

\* line 414: Modified after a record that got to the end of the loop body
ModifiedAfterRecord(Modified) == TRUE

\* lines 232..415: the version, the descriptors and the texts of pEvent = events[p]
MergeFields(L, p, si, h, env) ==
    LET pe == [L.events[p] EXCEPT !.version = h.version]
        D == ApplyDescriptors(
               DescriptorLoop(DescriptorLocals(pe, L.channel, L.other), si.descriptors,
                              si.startTime, si.duration, env.Now, env.updateChannels))
    IN  [L EXCEPT !.events[p] = D.pe,
                  !.channel = D.channel,
                  !.other = D.other,
                  !.ChannelsModified = @ \/ D.ChannelsModified,
                  !.Modified = ModifiedAfterRecord(@)]

\* lines 200..231: the running status of pEvent = events[p]; inSchedule
\* tells whether pEvent is an event of the schedule
WatchRunningStatus(L, p, inSchedule, si, h) ==
    IF si.runningStatus >= RunningStatusNotRunning
      THEN LET prior == L.events[p].runningStatus
               status == EffectiveRunningStatus(si.runningStatus, prior, h.sectionNumber)
           IN  [L EXCEPT
                  !.events = SetRunningStatus(@, IF inSchedule THEN p ELSE 0, status),
                  !.applied = Append(@, [eventID |-> L.events[p].eventID,
                                         reported |-> si.runningStatus,
                                         prior |-> prior,
                                         status |-> status])]
      ELSE L

\* faulty variant: a section that Check refuses is merged all the same
SkipsMergeNever(Process) == FALSE

\* lines 229..230: the rest of the record is skipped if Check refused the section
SkipsMerge(Process) == ~Process

\* lines 198..415: what is done with pEvent = events[p] once it is found or made
WriteEvent(L, p, inSchedule, si, h, Process, env) ==
    LET L1 == [L EXCEPT !.events[p].tableID = NewTableID(@, h.tid)]
    IN  IF h.tid = TidPresentFollowing
          THEN LET L2 == WatchRunningStatus(L1, p, inSchedule, si, h)
               IN  IF SkipsMerge(Process) THEN L2 ELSE MergeFields(L2, p, si, h, env)
          ELSE MergeFields(L1, p, si, h, env)

\* the lookup of a record found no event
NotFound == [position |-> 0, event |-> NewEvent(0, 0, 0)]

\* lines 165..197: find the event of the record, or make a new one
FindOrCreate(L, si, h, Process, env) ==
    LET p == FindEvent(L.events, h.tid, si.eventId, si.startTime)
        L0 == [L EXCEPT !.found =
                 Append(@, IF p = 0 THEN NotFound
                           ELSE [position |-> p, event |-> L.events[p]])]
    IN  IF p = 0 \/ env.handledExternally
          THEN IF env.handledExternally /\ ~env.isUpdate
                 THEN L0
                 ELSE WriteEvent(
                        [L0 EXCEPT !.events =
                           Append(@, NewEvent(si.eventId, si.startTime, si.duration))],
                        Len(L.events) + 1, ~env.handledExternally, si, h, Process, env)
          ELSE LET L1 == [L0 EXCEPT !.events[p].seen = TRUE]
               IN  IF IsProtected(L.events[p].tableID, h.tid)
                     THEN L1
                     ELSE WriteEvent(
                            [L1 EXCEPT !.events[p].eventID = si.eventId,
                                       !.events[p].startTime = si.startTime,
                                       !.events[p].duration = si.duration],
                            p, TRUE, si, h, Process, env)

\* faulty variant: no record is too old
IsExpiredNever(StartTime, Duration, Now) == FALSE

\* lines 153..154: the record ended before the linger limit
IsExpired(StartTime, Duration, Now) == StartTime + Duration < Now - EPG_LINGER_TIME

\* lines 156..157: SegmentStart is set once, by the first record that gets here
SegmentStartAfter(SegmentStart, StartTime) ==
    IF SegmentStart = 0 THEN StartTime ELSE SegmentStart

\* faulty variant: SegmentEnd is the latest end of the records so far
SegmentEndLatest(SegmentEnd, StartTime, Duration) ==
    IF StartTime + Duration > SegmentEnd THEN StartTime + Duration ELSE SegmentEnd

\* line 158: SegmentEnd is set by every record that gets here
SegmentEndAfter(SegmentEnd, StartTime, Duration) == StartTime + Duration

\* lines 145..164: the checks on the record and the segment times
ProcessEvent(L, si, h, Process, env) ==
    IF si.claimed THEN L
    ELSE IF IsBogus(si.startTime, si.duration) THEN L
    ELSE IF IsExpired(si.startTime, si.duration, env.Now)
      THEN [L EXCEPT !.Empty = FALSE]
    ELSE LET start == SegmentStartAfter(L.SegmentStart, si.startTime)
             end == SegmentEndAfter(L.SegmentEnd, si.startTime, si.duration)
             L1 == [L EXCEPT
                      !.Empty = FALSE,
                      !.SegmentStart = start,
                      !.SegmentEnd = end,
                      !.tableStart = IF h.tid = TidPresentFollowing /\ h.sectionNumber = 0
                                       THEN start ELSE @,
                      !.tableEnd = IF h.tid = TidPresentFollowing /\ h.sectionNumber # 0
                                     THEN end ELSE @]
             L2 == FindOrCreate(L1, si, h, Process, env)
         IN  \* an event that is handled externally is not kept in the schedule
             IF env.handledExternally THEN [L2 EXCEPT !.events = L.events] ELSE L2

\* the loop over the event records
RECURSIVE EventLoop(_, _, _, _, _)
EventLoop(L, sis, h, Process, env) ==
    IF sis = <<>> THEN L
    ELSE EventLoop(ProcessEvent(L, Head(sis), h, Process, env), Tail(sis), h, Process, env)

\* -------------------------------------------------------------------------
\* cEIT::cEIT
\* -------------------------------------------------------------------------

\* what one call did: where it left, what it asked of the stores and the
\* section syncers, the running statuses it applied, the pruning it ran
CallRecord(h, exit, Process, ops, L, pruned) ==
    [section |-> h,
     exit |-> exit,
     process |-> Process,
     ops |-> ops,
     applied |-> L.applied,
     found |-> L.found,
     pruned |-> pruned]

\* no call yet
NoSection == [tid |-> 0, version |-> 0, sectionNumber |-> 0, lastSectionNumber |-> 0,
              segmentLastSectionNumber |-> 0, lastTableId |-> 0, events |-> <<>>]

NoCall ==
    [section |-> NoSection, exit |-> "none", process |-> FALSE,
     ops |-> <<>>, applied |-> <<>>, found |-> <<>>, pruned |-> <<>>]

\* faulty variant: an empty section of table 0x4E clears the running status,
\* whatever its number
ClearsRunningStatusAnySection(Tid, Empty, SectionNumber) ==
    Tid = TidPresentFollowing /\ Empty

\* lines 419..421: an empty present section clears the running status
ClearsRunningStatus(Tid, Empty, SectionNumber) ==
    Tid = TidPresentFollowing /\ Empty /\ SectionNumber = 0

\* faulty variant: a modified schedule is pruned whether or not the table
\* is complete
PrunesIncomplete(Process, Modified, Tid, Complete) == Process /\ Modified

\* lines 425..427: the schedule is sorted and pruned
Prunes(Process, Modified, Tid, Complete) ==
    Process /\ Modified /\ (Tid >= TidSchedActualFirst \/ Complete)

\* faulty variant: the window of the section is used for every table
UsesTableWindowNever(Tid, LastSectionNumber) == FALSE

\* line 428: table 0x4E of two sections is pruned with the times the
\* cEitTables keeps
UsesTableWindow(Tid, LastSectionNumber) ==
    Tid = TidPresentFollowing /\ LastSectionNumber = 1

\* faulty variant: the channels are released before the schedules
ReleasesChannelsFirst(Modified, ChannelsModified) ==
    <<IF ChannelsModified THEN "ChannelsRemove(true)" ELSE "ChannelsRemove(false)",
      IF Modified THEN "SchedulesRemove(true)" ELSE "SchedulesRemove(false)">>

\* lines 437..438: the state keys are removed, the schedules first
Releases(Modified, ChannelsModified) ==
    <<IF Modified THEN "SchedulesRemove(true)" ELSE "SchedulesRemove(false)",
      IF ChannelsModified THEN "ChannelsRemove(true)" ELSE "ChannelsRemove(false)">>

\* lines 419..438: after the loop
Finish(st, tables, sched, L, h, Process, env, ops) ==
    LET clr == ClearsRunningStatus(h.tid, L.Empty, h.sectionNumber)
        events1 == IF clr THEN ClrRunningStatus(L.events) ELSE L.events
        tables1 == [tables EXCEPT !.tableStart = L.tableStart, !.tableEnd = L.tableEnd]
        tables2 == IF Process
                     THEN EitTablesProcessed(tables1, h.tid, h.lastTableId, h.sectionNumber,
                                             h.lastSectionNumber, h.segmentLastSectionNumber)
                     ELSE tables1
        Complete == EitTablesProcessedResult(tables1, h.tid, h.sectionNumber,
                                             h.lastSectionNumber, h.segmentLastSectionNumber)
        prune == Prunes(Process, L.Modified, h.tid, Complete)
        useTable == UsesTableWindow(h.tid, h.lastSectionNumber)
        SegmentStart == IF useTable THEN tables2.tableStart ELSE L.SegmentStart
        SegmentEnd == IF useTable THEN tables2.tableEnd ELSE L.SegmentEnd
        events2 == IF prune
                     THEN DropOutdated(SortEvents(events1), SegmentStart, SegmentEnd,
                                       env.Now - EPG_LINGER_TIME)
                     ELSE events1
    IN  [tables |-> tables2,
         sched |-> [sched EXCEPT
                      !.events = events2,
                      !.presentSeen = IF h.tid = TidPresentFollowing THEN TRUE ELSE @],
         channel |-> L.channel,
         other |-> L.other,
         call |-> CallRecord(h, "done", Process,
                             ops \o (IF clr THEN <<"ClrRunningStatus">> ELSE <<>>)
                                 \o (IF Process THEN <<"Processed">> ELSE <<>>)
                                 \o Releases(L.Modified, L.ChannelsModified),
                             L,
                             IF prune THEN <<SegmentStart, SegmentEnd>> ELSE <<>>)]

\* faulty variant: a return that keeps the channels locked
AbortHoldsChannels(st, tables, sched, h, exit, Process, ops) ==
    [tables |-> tables, sched |-> sched, channel |-> st.channel, other |-> st.other,
     call |-> CallRecord(h, exit, Process,
                         SelectSeq(ops, LAMBDA op : op # "ChannelsRemove(false)"),
                         LoopInit(st), <<>>)]

\* a return before the loop over the events
Abort(st, tables, sched, h, exit, Process, ops) ==
    [tables |-> tables, sched |-> sched, channel |-> st.channel, other |-> st.other,
     call |-> CallRecord(h, exit, Process, ops, LoopInit(st), <<>>)]

\* faulty variant: no section is dropped
StopsAtCheckNever(Tid, Process) == FALSE

\* line 93: a section that Check refuses is dropped, except on table 0x4E
StopsAtCheck(Tid, Process) == Tid # TidPresentFollowing /\ ~Process

\* faulty variant: tables 0x6X are never ignored
IgnoresOtherTpNever(onActualTp, Tid) == FALSE

\* line 120: tables 0x6X are ignored once the schedule has seen 0x5X
IgnoresOtherTp(onActualTp, Tid) == onActualTp /\ HighNibble(Tid) = TidSchedOtherFirst

\* the constructor, on the state st = [tables, sched, channel, other]
CEit(st, h, env) ==
    LET tables == EitTablesCheck(st.tables, h.tid, h.version, h.sectionNumber)
        Process == EitTablesCheckResult(st.tables, h.tid, h.version, h.sectionNumber)
        sched == [st.sched EXCEPT !.present = TRUE,
                                  !.onActualTp = OnActualTp(@, h.tid)]
    IN  IF ~env.crcOk
          THEN Abort(st, st.tables, st.sched, h, "crc", FALSE, <<>>)
        ELSE IF StopsAtCheck(h.tid, Process)
          THEN Abort(st, tables, st.sched, h, "duplicate", Process, <<"Check">>)
        ELSE IF env.Now < VALID_TIME
          THEN Abort(st, tables, st.sched, h, "clock", Process, <<"Check">>)
        ELSE IF ~env.channelsLock
          THEN Abort(st, tables, st.sched, h, "channelsLock", Process,
                     <<"Check", "GetChannelsWrite:timeout">>)
        ELSE IF ~env.channelFound \/ env.ignoreChannel
          THEN Abort(st, tables, st.sched, h, "channel", Process,
                     <<"Check", "GetChannelsWrite", "ChannelsRemove(false)">>)
        ELSE IF ~env.schedulesLock
          THEN Abort(st, tables, st.sched, h, "schedulesLock", Process,
                     <<"Check", "GetChannelsWrite", "GetSchedulesWrite:timeout",
                       "ChannelsRemove(false)">>)
        ELSE IF IgnoresOtherTp(sched.onActualTp, h.tid)
          THEN Abort(st, tables, sched, h, "precedence", Process,
                     <<"Check", "GetChannelsWrite", "GetSchedulesWrite",
                       "SchedulesRemove(false)", "ChannelsRemove(false)">>)
        ELSE IF ~env.beginSegmentTransfer
          THEN Abort(st, tables, sched, h, "begin", Process,
                     <<"Check", "GetChannelsWrite", "GetSchedulesWrite",
                       "SchedulesRemove(false)", "ChannelsRemove(false)">>)
        ELSE Finish(st, tables, sched,
                    EventLoop(LoopInit([st EXCEPT !.tables = tables]), h.events, h,
                              Process, env),
                    h, Process, env,
                    <<"Check", "GetChannelsWrite", "GetSchedulesWrite">>)

\* -------------------------------------------------------------------------
\* Sections and collaborators' answers the steps draw from
\* -------------------------------------------------------------------------

\* an event record of a section
SiEvent(eventId, startTime, duration, runningStatus, descriptors) ==
    [eventId |-> eventId, startTime |-> startTime, duration |-> duration,
     runningStatus |-> runningStatus, descriptors |-> descriptors, claimed |-> FALSE]

\* a section: sn = <<section number, last section number, segment last section number>>
Section(tid, version, sn, lastTableId, events) ==
    [tid |-> tid, version |-> version, sectionNumber |-> sn[1],
     lastSectionNumber |-> sn[2], segmentLastSectionNumber |-> sn[3],
     lastTableId |-> lastTableId, events |-> events]

\* the local clock when it is plausible
NowT == VALID_TIME + 86400

\* start time and duration of the programmes on air
T == NowT - 600

HalfHour == 1800

\* every collaborator answers as in normal operation
EnvOk ==
    [crcOk |-> TRUE, Now |-> NowT, channelsLock |-> TRUE, channelFound |-> TRUE,
     ignoreChannel |-> FALSE, schedulesLock |-> TRUE, beginSegmentTransfer |-> TRUE,
     handledExternally |-> FALSE, isUpdate |-> TRUE, updateChannels |-> 5]

\* one collaborator makes the constructor return early
EnvAborts ==
    {[EnvOk EXCEPT !.crcOk = FALSE],
     [EnvOk EXCEPT !.Now = VALID_TIME - 1],
     [EnvOk EXCEPT !.channelsLock = FALSE],
     [EnvOk EXCEPT !.channelFound = FALSE],
     [EnvOk EXCEPT !.ignoreChannel = TRUE],
     [EnvOk EXCEPT !.schedulesLock = FALSE],
     [EnvOk EXCEPT !.beginSegmentTransfer = FALSE]}

\* -------------------------------------------------------------------------
\* cTDT::cTDT
\* -------------------------------------------------------------------------

\* number of seconds the local time may differ from dvb time before making
\* any corrections
MAX_TIME_DIFF == 1

\* number of seconds the local time may differ from dvb time to allow smooth
\* adjustment
MAX_ADJ_DIFF == 10

\* number of seconds between calls for smooth time adjustment
ADJ_DELTA == 300

Abs(x) == IF x < 0 THEN -x ELSE x

\* line 473: the time differs from the one seen last, by the same amount
Debounced(OldTime, OldDiff, dvbtim, diff) == OldTime # dvbtim /\ OldDiff = diff

\* faulty variant: a difference of MAX_ADJ_DIFF is too large already
HardSetsAtMax(diff) == Abs(diff) >= MAX_ADJ_DIFF

\* line 474: the difference is too large to be adjusted smoothly
HardSets(diff) == Abs(diff) > MAX_ADJ_DIFF

\* faulty variant: a smooth adjustment as soon as ADJ_DELTA seconds have passed
SlewDueAtDelta(now, LastAdj) == now - LastAdj >= ADJ_DELTA

\* line 482: the last smooth adjustment is long enough ago
SlewDue(now, LastAdj) == now - LastAdj > ADJ_DELTA

\* faulty variant: a difference is acted upon the first time it is seen
TdtActionUndebounced(st, dvbtim, loctim) ==
    LET diff == dvbtim - loctim
    IN  IF Abs(diff) <= MAX_TIME_DIFF THEN "none"
        ELSE IF HardSets(diff) THEN "clock_settime"
        ELSE IF SlewDue(loctim, st.lastAdj) THEN "adjtime"
        ELSE "none"

\* lines 470..492: what the constructor asks of the system clock
TdtAction(st, dvbtim, loctim) ==
    LET diff == dvbtim - loctim
    IN  IF Abs(diff) <= MAX_TIME_DIFF THEN "none"
        ELSE IF ~Debounced(st.oldTime, st.oldDiff, dvbtim, diff) THEN "none"
        ELSE IF HardSets(diff) THEN "clock_settime"
        ELSE IF SlewDue(loctim, st.lastAdj) THEN "adjtime"
        ELSE "none"

\* lines 473..491, the mutex held: what the constructor asks of the system
\* clock, given the diff it computed before and the time now
TdtActionLocked(st, dvbtim, diff, now) ==
    IF ~Debounced(st.oldTime, st.oldDiff, dvbtim, diff) THEN "none"
    ELSE IF HardSets(diff) THEN "clock_settime"
    ELSE IF SlewDue(now, st.lastAdj) THEN "adjtime"
    ELSE "none"

\* the threads that may construct a cTDT at the same time, one per filter
TdtThreadIds == {1, 2}

\* a thread that is not in the constructor
TdtIdle == [pc |-> "idle", dvbtim |-> 0, loctim |-> 0, diff |-> 0]

\* no call yet
NoTdtCall == [n |-> 0, dvbtim |-> 0, loctim |-> 0, diff |-> 0, action |-> "none", ok |-> TRUE]

\* cTDT::cTDT: the statics, the system clock and the trace of the call
\* afterwards; st holds the statics, ok tells whether the system call succeeds
CTdt(st, n, dvbtim, loctim, ok) ==
    LET diff == dvbtim - loctim
        action == TdtAction(st, dvbtim, loctim)
    IN  [lastAdj |-> IF action = "adjtime" THEN loctim ELSE st.lastAdj,
         oldTime |-> IF Abs(diff) > MAX_TIME_DIFF THEN dvbtim ELSE st.oldTime,
         oldDiff |-> IF Abs(diff) > MAX_TIME_DIFF THEN diff ELSE st.oldDiff,
         clock |-> IF action = "clock_settime" /\ ok THEN dvbtim ELSE loctim,
         call |-> [n |-> n + 1, dvbtim |-> dvbtim, loctim |-> loctim, diff |-> diff,
                   action |-> action, ok |-> action = "none" \/ ok]]

\* -------------------------------------------------------------------------
\* cEitFilter
\* -------------------------------------------------------------------------

PidEit == 18

PidTdt == 20

TidSchedOtherLast == 111

\* faulty variant: the sections are processed again one second early
SuppressedBefore(DisableUntil, now) == DisableUntil # 0 /\ now < DisableUntil

\* lines 524..529: the sections are still to be dropped
Suppressed(DisableUntil, now) == DisableUntil # 0 /\ ~(now > DisableUntil)

\* faulty variant: table 0x4F is processed too
RoutesToEitFrom4E(Pid, Tid) ==
    Pid = PidEit /\ Tid >= TidPresentFollowing /\ Tid <= TidSchedOtherLast

\* lines 531..533: the section goes to cEIT
RoutesToEit(Pid, Tid) ==
    /\ Pid = PidEit
    /\ (Tid = TidPresentFollowing \/ (Tid >= TidSchedActualFirst /\ Tid <= TidSchedOtherLast))

\* ISTRANSPONDER: two frequencies name the same transponder
IsTransponder(f1, f2) == Abs(f1 - f2) < 4

\* lines 536..538: the section goes to cTDT
RoutesToTdt(Pid, setup) ==
    /\ Pid = PidTdt
    /\ setup.SetSystemTime
    /\ setup.TimeSource = setup.Source
    /\ setup.TimeTransponder # 0
    /\ IsTransponder(setup.Transponder, setup.TimeTransponder)

\* no call yet
NoFilterCall ==
    [n |-> 0, pid |-> 0, tid |-> 0, did |-> "none", cleared |-> FALSE,
     setup |-> [SetSystemTime |-> FALSE, TimeSource |-> 0, Source |-> 0,
                TimeTransponder |-> 0, Transponder |-> 0]]

\* the section handler thread is not in cEitFilter::Process
Idle == [pc |-> "idle"]

\* -------------------------------------------------------------------------
\* The state and the steps
\* -------------------------------------------------------------------------

VARIABLES
    eitTables,   \* the cEitTables of the service (its entry in the hash)
    schedule,    \* the cSchedule of the channel
    channel,     \* the cChannel of the service
    other,       \* the one other channel a linkage descriptor may point to
    call,        \* what the last call of cEIT::cEIT did
    script,      \* the end-to-end scenario: its start time, the sections fed
    clock,       \* the system clock, as time(NULL) reads it
    disableUntil,\* cEitFilter::disableUntil
    filterCall,  \* what the last call of cEitFilter::Process did
    lastAdj,     \* cTDT::lastAdj
    oldTime,     \* cTDT::oldTime
    oldDiff,     \* cTDT::oldDiff
    tdtMutex,    \* cTDT::mutex: 0, or the thread that holds it
    tdtThreads,  \* the threads that construct a cTDT: where each is, and its locals
    tdtActed,    \* the broadcast times on which the system clock was corrected
    tdtCall,     \* what the last call of cTDT::cTDT did
    mutex,       \* who holds cEitFilter::mutex
    thread       \* where the section handler thread is in cEitFilter::Process

\* the statics of cTDT and the trace of its last call
tdtVars == <<lastAdj, oldTime, oldDiff, tdtCall, tdtMutex, tdtThreads, tdtActed>>

\* the filter, its thread and the clock
filterVars == <<clock, disableUntil, filterCall, mutex, thread>>

\* what cEIT::cEIT works on
eitVars == <<eitTables, schedule, channel, other, call>>

vars == <<eitTables, schedule, channel, other, call, script,
          clock, disableUntil, filterCall, lastAdj, oldTime, oldDiff, tdtCall,
          tdtMutex, tdtThreads, tdtActed, mutex, thread>>

State == [tables |-> eitTables, sched |-> schedule, channel |-> channel, other |-> other]

InitWith(script0) ==
    /\ eitTables = EitTablesInit
    /\ schedule = ScheduleInit
    /\ channel = ChannelInit
    /\ other = OtherChannelInit
    /\ call = NoCall
    /\ script = script0
    /\ clock = NowT
    /\ disableUntil = 0
    /\ filterCall = NoFilterCall
    /\ lastAdj = 0
    /\ oldTime = 0
    /\ oldDiff = 0
    /\ tdtCall = NoTdtCall
    /\ tdtMutex = 0
    /\ tdtThreads = [i \in TdtThreadIds |-> TdtIdle]
    /\ tdtActed = {}
    /\ mutex = "free"
    /\ thread = Idle

\* nothing received yet
Init == InitWith([start |-> T, fed |-> 0])

\* one section handed to cEIT::cEIT
cEIT(h, env) ==
    LET r == CEit(State, h, env)
    IN  /\ Len(r.sched.events) <= MaxSchedule
        /\ eitTables' = r.tables
        /\ schedule' = r.sched
        /\ channel' = r.channel
        /\ other' = r.other
        /\ call' = r.call

\* the statics of cTDT
TdtStatics == [lastAdj |-> lastAdj, oldTime |-> oldTime, oldDiff |-> oldDiff]

\* one section handed to cTDT::cTDT when the system clock reads loctim: it
\* carries the time dvbtim, and the system call the constructor may make
\* succeeds or fails
cTDT(loctim, dvbtim, ok) ==
    LET r == CTdt(TdtStatics, tdtCall.n, dvbtim, loctim, ok)
    IN  /\ tdtCall.n < MaxObservations
        /\ r.clock >= NowT
        /\ r.clock <= NowT + MaxClock
        /\ lastAdj' = r.lastAdj
        /\ oldTime' = r.oldTime
        /\ oldDiff' = r.oldDiff
        /\ clock' = r.clock
        /\ tdtCall' = r.call
        /\ UNCHANGED <<tdtMutex, tdtThreads, tdtActed>>

\* d seconds pass
Tick(d) ==
    /\ clock + d <= NowT + MaxClock
    /\ clock' = clock + d

\* cEitFilter::SetDisableUntil
SetDisableUntil(Time) == disableUntil' = Time

\* what a call of cEitFilter::Process did with a section, and whether it
\* found the time the filter was disabled for to be over
FilterCall(Pid, Tid, setup, did) ==
    [n |-> 1 - filterCall.n, pid |-> Pid, tid |-> Tid, did |-> did,
     cleared |-> did # "dropped" /\ disableUntil # 0, setup |-> setup]

\* lines 530..542: the switch over the pid; h is the section as cEIT reads
\* it, dvbtim the time cTDT reads from it
Dispatch(Pid, Tid, h, dvbtim, ok, setup) ==
    IF RoutesToEit(Pid, Tid)
      THEN /\ cEIT(h, [EnvOk EXCEPT !.Now = clock])
           /\ filterCall' = FilterCall(Pid, Tid, setup, "cEIT")
           /\ UNCHANGED <<tdtVars, clock>>
    ELSE IF RoutesToTdt(Pid, setup)
      THEN /\ cTDT(clock, dvbtim, ok)
           /\ filterCall' = FilterCall(Pid, Tid, setup, "cTDT")
           /\ UNCHANGED eitVars
    ELSE /\ filterCall' = FilterCall(Pid, Tid, setup, "none")
         /\ UNCHANGED <<eitVars, tdtVars, clock>>

\* cEitFilter::Process
Process(Pid, Tid, h, dvbtim, ok, setup) ==
    IF Suppressed(disableUntil, clock)
      THEN /\ filterCall' = FilterCall(Pid, Tid, setup, "dropped")
           /\ UNCHANGED <<eitVars, tdtVars, clock, disableUntil>>
      ELSE /\ disableUntil' = 0
           /\ Dispatch(Pid, Tid, h, dvbtim, ok, setup)

\* sections from a set, answers from a set
Feed(Sections, Envs) ==
    /\ \E h \in Sections, env \in Envs : cEIT(h, env)
    /\ UNCHANGED <<script, filterVars, tdtVars>>

\* -------------------------------------------------------------------------
\* Spec: tables 0x4E, 0x50 and 0x60, events told apart by id and by start
\* time, each table giving its own title
\* -------------------------------------------------------------------------

\* the title a table gives its events: broadcasters use different texts in
\* different tables
TitleOf(tid) == <<ShortEventDescriptor(0, tid, tid)>>

SpecTids == {TidPresentFollowing, TidSchedActualFirst, TidSchedOtherFirst}

SpecEvents(tid) ==
    {<<SiEvent(id, start, HalfHour, RunningStatusUndefined, TitleOf(tid))>> :
       id \in {100, 101}, start \in {T, T + HalfHour}}

\* the two sections of a present/following table, the one of a schedule table
SpecSectionNumbers(tid) ==
    IF tid = TidPresentFollowing THEN {<<0, 1, 1>>} ELSE {<<0, 0, 0>>}

\* section 0 of a table of two sections
SpecSectionNumber == <<0, 1, 1>>

SpecSections ==
    UNION {{Section(tid, 1, sn, tid, evs) :
              sn \in SpecSectionNumbers(tid), evs \in SpecEvents(tid)} :
             tid \in SpecTids}

Next == Feed(SpecSections, {EnvOk})

Spec == Init /\ [][Next]_vars

\* -------------------------------------------------------------------------
\* SpecMarker: the same sections, the schedule holding from the start an
\* event with a table id below 0x4E, as events read from the EPG data file
\* or entered by the user have
\* -------------------------------------------------------------------------

\* the programme on air, with table id 0
LegacyEvent == [NewEvent(100, T, HalfHour) EXCEPT !.tableID = 0]

InitMarker ==
    /\ eitTables = EitTablesInit
    /\ schedule = [ScheduleInit EXCEPT !.present = TRUE, !.events = <<LegacyEvent>>]
    /\ channel = ChannelInit
    /\ other = OtherChannelInit
    /\ call = NoCall
    /\ script = [start |-> T, fed |-> 0]
    /\ clock = NowT
    /\ disableUntil = 0
    /\ filterCall = NoFilterCall
    /\ lastAdj = 0
    /\ oldTime = 0
    /\ oldDiff = 0
    /\ tdtCall = NoTdtCall
    /\ tdtMutex = 0
    /\ tdtThreads = [i \in TdtThreadIds |-> TdtIdle]
    /\ tdtActed = {}
    /\ mutex = "free"
    /\ thread = Idle

SpecMarker == InitMarker /\ [][Next]_vars

\* -------------------------------------------------------------------------
\* SpecRunning: the present/following table with every running status
\* -------------------------------------------------------------------------

RunningStatuses ==
    {RunningStatusUndefined, RunningStatusNotRunning, RunningStatusStartsInAFewSeconds,
     RunningStatusPausing, RunningStatusRunning}

RunningSections ==
    {Section(TidPresentFollowing, 1, sn, TidPresentFollowing, evs) :
       sn \in {<<0, 1, 1>>, <<1, 1, 1>>},
       evs \in {<<>>} \cup
               {<<SiEvent(100, T, HalfHour, rs, <<>>)>> : rs \in RunningStatuses}}

NextRunning == Feed(RunningSections, {EnvOk})

SpecRunning == Init /\ [][NextRunning]_vars

\* -------------------------------------------------------------------------
\* SpecGates: every way out of the constructor, on sections that would
\* change the schedule and the channel
\* -------------------------------------------------------------------------

\* a title, and a linkage that names the portal of the channel itself
GateDescriptors(tid) ==
    <<ShortEventDescriptor(0, tid, tid), LinkageDescriptor(LinkageTypePremiere, 0, tid)>>

GateSections ==
    UNION {{Section(tid, 1, SpecSectionNumber, tid,
                    <<SiEvent(id, T, HalfHour, RunningStatusRunning, GateDescriptors(tid))>>) :
              id \in {100, 101}} :
             tid \in SpecTids}

NextGates == Feed(GateSections, {EnvOk} \cup EnvAborts)

SpecGates == Init /\ [][NextGates]_vars

\* -------------------------------------------------------------------------
\* SpecTables: the section syncers of tables 0x4E and 0x50 over two versions
\* and all section numbers, the sections carrying no events
\* -------------------------------------------------------------------------

\* section number and last section number, the table being one segment
TableSectionNumbers ==
    {sn \in {<<n, last, last>> : n \in 0..MaxSection, last \in 0..MaxSection} :
        sn[1] <= sn[2]}

TableSections ==
    {Section(tid, version, sn, tid, <<>>) :
       tid \in {TidPresentFollowing, TidSchedActualFirst},
       version \in {1, 2},
       sn \in TableSectionNumbers}

\* the collaborators answer, or the schedules cannot be locked in time
TableEnvs == {EnvOk, [EnvOk EXCEPT !.schedulesLock = FALSE]}

NextTables == Feed(TableSections, TableEnvs)

SpecTables == Init /\ [][NextTables]_vars

\* -------------------------------------------------------------------------
\* SpecPruning: tables 0x4E and 0x50 of one or two sections, with and without
\* an event, the present/following table also announcing a later last table
\* -------------------------------------------------------------------------

PruningSectionNumbers == {<<0, 0, 0>>, <<0, 1, 1>>, <<1, 1, 1>>}

PruningEvents == {<<>>, <<SiEvent(100, T, HalfHour, RunningStatusUndefined, <<>>)>>}

PruningSections ==
    {Section(TidPresentFollowing, version, sn, lastTableId, evs) :
       version \in {1, 2},
       sn \in PruningSectionNumbers,
       lastTableId \in {TidPresentFollowing, TidSchedActualFirst},
       evs \in PruningEvents}
    \cup
    {Section(TidSchedActualFirst, 1, sn, TidSchedActualFirst, evs) :
       sn \in {<<0, 1, 1>>, <<1, 1, 1>>},
       evs \in PruningEvents}

NextPruning == Feed(PruningSections, {EnvOk})

SpecPruning == Init /\ [][NextPruning]_vars

\* -------------------------------------------------------------------------
\* SpecBogus: sections of tables 0x4E and 0x50 whose records are bogus, an
\* NVOD reference, long over, claimed by an EPG handler, or valid
\* -------------------------------------------------------------------------

\* start time 0
BogusNoStart == SiEvent(100, 0, HalfHour, RunningStatusRunning, <<>>)

\* a start time and duration 0
BogusNoDuration == SiEvent(100, T, 0, RunningStatusRunning, <<>>)

\* an NVOD reference event: all bits of the start time field are set, which
\* reads as a negative number
NvodReference == SiEvent(100, -1, HalfHour, RunningStatusUndefined, <<>>)

\* an event on air
ValidEvent == SiEvent(100, T, HalfHour, RunningStatusRunning, <<>>)

\* an event that ended a day ago
ExpiredEvent == SiEvent(101, T - 86400, HalfHour, RunningStatusUndefined, <<>>)

\* an event on air that an EPG handler processes all by itself
ClaimedEvent == [ValidEvent EXCEPT !.claimed = TRUE]

BogusEvents ==
    {<<>>, <<BogusNoStart>>, <<BogusNoDuration>>, <<NvodReference>>, <<ValidEvent>>,
     <<ExpiredEvent>>, <<ClaimedEvent>>, <<BogusNoStart, ValidEvent>>}

BogusSections ==
    {Section(TidPresentFollowing, 1, sn, TidPresentFollowing, evs) :
       sn \in {<<0, 1, 1>>, <<1, 1, 1>>}, evs \in BogusEvents}
    \cup
    {Section(TidSchedActualFirst, version, <<0, 0, 0>>, TidSchedActualFirst, evs) :
       version \in {1, 2}, evs \in BogusEvents}

NextBogus == Feed(BogusSections, {EnvOk})

SpecBogus == Init /\ [][NextBogus]_vars

\* -------------------------------------------------------------------------
\* SpecWindow: table 0x50 sections whose two records come in either order,
\* and the two sections of table 0x4E in two versions, with a record, with a
\* record that is long over, or with none; the last section 0 and the last
\* following section of table 0x4E that got to the loop are remembered
\* -------------------------------------------------------------------------

\* the programme on air and the one after it
WindowFirst == SiEvent(100, T, HalfHour, RunningStatusRunning, <<>>)

WindowSecond == SiEvent(101, T + HalfHour, HalfHour, RunningStatusUndefined, <<>>)

\* a record with the id of the programme on air that ended a day ago
WindowExpired == SiEvent(100, T - 86400, HalfHour, RunningStatusRunning, <<>>)

WindowSections ==
    {Section(TidSchedActualFirst, 1, <<0, 0, 0>>, TidSchedActualFirst, evs) :
       evs \in {<<WindowFirst, WindowSecond>>, <<WindowSecond, WindowFirst>>,
                <<WindowExpired>>}}
    \cup
    {Section(TidPresentFollowing, version, <<0, 1, 1>>, TidPresentFollowing, <<WindowFirst>>) :
       version \in {1, 2}}
    \cup
    {Section(TidPresentFollowing, 2, <<0, 1, 1>>, TidPresentFollowing, evs) :
       evs \in {<<>>, <<WindowExpired>>}}
    \cup
    {Section(TidPresentFollowing, version, <<1, 1, 1>>, TidPresentFollowing, <<WindowSecond>>) :
       version \in {1, 2}}

NoPair == [start |-> T, fed |-> 0, present |-> NoSection, following |-> NoSection]

\* one section arrives
FeedWindow ==
    /\ \E h \in WindowSections :
          /\ cEIT(h, EnvOk)
          /\ script' = IF h.tid # TidPresentFollowing THEN script
                        ELSE IF h.sectionNumber = 0 THEN [script EXCEPT !.present = h]
                        ELSE [script EXCEPT !.following = h]
    /\ UNCHANGED <<filterVars, tdtVars>>

InitWindow == InitWith(NoPair)

NextWindow == FeedWindow

SpecWindow == InitWindow /\ [][NextWindow]_vars

\* -------------------------------------------------------------------------
\* SpecClock: time sections arrive at once, a second or ADJ_DELTA seconds
\* after the last, their time equal to, near or far from the system clock
\* -------------------------------------------------------------------------

\* seconds between two time sections
TdtElapsed == {0, 1, ADJ_DELTA}

\* dvb time minus local time
TdtDiffs == {-11, -5, 0, 1, 5, 10, 11}

ObserveTdt ==
    /\ \E d \in TdtElapsed, diff \in TdtDiffs, ok \in BOOLEAN :
          cTDT(clock + d, clock + d + diff, ok)
    /\ UNCHANGED <<eitVars, script, disableUntil, filterCall, mutex, thread>>

NextClock == ObserveTdt

SpecClock == Init /\ [][NextClock]_vars

\* -------------------------------------------------------------------------
\* SpecTdtThreads: two threads go through cTDT::cTDT statement by statement,
\* each with a time section of its own filter; up to two seconds pass before
\* a section is read
\* -------------------------------------------------------------------------

\* seconds that pass before a time section arrives
TdtWaits == {0, 1, 2}

\* dvb time minus local time
TdtThreadDiffs == {-2, 0, 11}

\* lines 467..471: the thread reads the time of the section and the system
\* clock and compares them
TdtEnter(i) ==
    /\ tdtThreads[i].pc = "idle"
    /\ tdtCall.n < MaxObservations
    /\ \E e \in TdtWaits, diff \in TdtThreadDiffs :
          /\ clock + e <= NowT + MaxClock
          /\ clock' = clock + e
          /\ tdtThreads' = [tdtThreads EXCEPT ![i] =
                              [pc |-> IF Abs(diff) > MAX_TIME_DIFF THEN "lock" ELSE "idle",
                               dvbtim |-> clock + e + diff, loctim |-> clock + e,
                               diff |-> diff]]
          /\ tdtCall' = [n |-> tdtCall.n + 1, dvbtim |-> clock + e + diff,
                         loctim |-> clock + e, diff |-> diff, action |-> "none", ok |-> TRUE]
    /\ UNCHANGED <<eitVars, script, disableUntil, filterCall, mutex, thread,
                   lastAdj, oldTime, oldDiff, tdtMutex, tdtActed>>

\* faulty variant: the thread does not wait for the mutex
TdtLockWithoutMutex(i) ==
    /\ tdtThreads[i].pc = "lock"
    /\ tdtMutex' = i
    /\ tdtThreads' = [tdtThreads EXCEPT ![i].pc = "test"]
    /\ UNCHANGED <<eitVars, script, filterVars, lastAdj, oldTime, oldDiff, tdtCall, tdtActed>>

\* line 472: mutex.Lock()
TdtLock(i) ==
    /\ tdtThreads[i].pc = "lock"
    /\ tdtMutex = 0
    /\ tdtMutex' = i
    /\ tdtThreads' = [tdtThreads EXCEPT ![i].pc = "test"]
    /\ UNCHANGED <<eitVars, script, filterVars, lastAdj, oldTime, oldDiff, tdtCall, tdtActed>>

\* lines 473..492: the test of oldTime and oldDiff, and the system call
TdtTest(i) ==
    LET t == tdtThreads[i]
        action == TdtActionLocked(TdtStatics, t.dvbtim, t.diff, clock)
        now == IF action = "clock_settime" THEN t.dvbtim ELSE clock
    IN  /\ t.pc = "test"
        /\ now >= NowT
        /\ now <= NowT + MaxClock
        /\ clock' = now
        /\ lastAdj' = IF action = "adjtime" THEN clock ELSE lastAdj
        /\ tdtActed' = IF action = "none" THEN tdtActed ELSE tdtActed \cup {t.dvbtim}
        /\ tdtCall' = [tdtCall EXCEPT !.dvbtim = t.dvbtim, !.loctim = t.loctim,
                                      !.diff = t.diff, !.action = action]
        /\ tdtThreads' = [tdtThreads EXCEPT ![i].pc = "update"]
        /\ UNCHANGED <<eitVars, script, disableUntil, filterCall, mutex, thread,
                       oldTime, oldDiff, tdtMutex>>

\* lines 493..495: oldTime and oldDiff are set, mutex.Unlock()
TdtUpdate(i) ==
    /\ tdtThreads[i].pc = "update"
    /\ oldTime' = tdtThreads[i].dvbtim
    /\ oldDiff' = tdtThreads[i].diff
    /\ tdtMutex' = 0
    /\ tdtThreads' = [tdtThreads EXCEPT ![i] = TdtIdle]
    /\ UNCHANGED <<eitVars, script, filterVars, lastAdj, tdtCall, tdtActed>>

NextTdtThreads ==
    \E i \in TdtThreadIds : TdtEnter(i) \/ TdtLock(i) \/ TdtTest(i) \/ TdtUpdate(i)

SpecTdtThreads == Init /\ [][NextTdtThreads]_vars

\* -------------------------------------------------------------------------
\* SpecFilter: sections of several pids and table ids under several setups,
\* while time passes and the filter gets disabled for a while; the time
\* sections carry the time of the system clock
\* -------------------------------------------------------------------------

\* the pids and table ids of the filter (0x12 with 0x40..0x7F, 0x14 with
\* 0x70), and a pid it has not asked for
FilterPidTids ==
    {<<PidEit, tid>> : tid \in {TidPresentFollowing, TidPresentFollowing + 1,
                                TidSchedActualFirst, TidSchedOtherLast,
                                TidSchedOtherLast + 1}}
    \cup {<<PidTdt, 112>>, <<17, 66>>}

\* the system time is to be set from this source and this transponder
SetupOk ==
    [SetSystemTime |-> TRUE, TimeSource |-> 1, Source |-> 1,
     TimeTransponder |-> 100, Transponder |-> 101]

\* Setup.SetSystemTime, Setup.TimeSource, Setup.TimeTransponder, and the
\* source and the transponder of the filter's device: all is set up, or one
\* of them is not
FilterSetups(Pid) ==
    IF Pid # PidTdt THEN {SetupOk}
    ELSE {SetupOk,
          [SetupOk EXCEPT !.SetSystemTime = FALSE],
          [SetupOk EXCEPT !.TimeSource = 2],
          [SetupOk EXCEPT !.Transponder = 200],
          [SetupOk EXCEPT !.TimeTransponder = 0, !.Transponder = 2]}

\* the section of table Tid as cEIT reads it
FilterSection(Tid) ==
    Section(Tid, 1, <<0, 0, 0>>, Tid,
            IF Tid = TidPresentFollowing THEN <<ValidEvent>> ELSE <<>>)

\* the seconds the filter gets disabled for
FilterDisabledFor == {1}

ProcessSection ==
    /\ \E pt \in FilterPidTids : \E setup \in FilterSetups(pt[1]) :
          Process(pt[1], pt[2], FilterSection(pt[2]), clock, TRUE, setup)
    /\ UNCHANGED <<script, mutex, thread>>

DisableFilter ==
    /\ \E d \in FilterDisabledFor : SetDisableUntil(clock + d)
    /\ UNCHANGED <<eitVars, script, tdtVars, clock, filterCall, mutex, thread>>

TickFilter ==
    /\ clock < NowT + MaxTicks
    /\ Tick(1)
    /\ UNCHANGED <<eitVars, script, tdtVars, disableUntil, filterCall, mutex, thread>>

NextFilter == ProcessSection \/ DisableFilter \/ TickFilter

SpecFilter == Init /\ [][NextFilter]_vars

\* -------------------------------------------------------------------------
\* SpecThreads: the section handler thread goes through cEitFilter::Process
\* statement by statement while another thread calls SetDisableUntil, which
\* takes no lock, and time passes
\* -------------------------------------------------------------------------

ThreadPidTids ==
    {<<PidEit, TidPresentFollowing>>, <<PidEit, TidSchedActualFirst>>, <<PidTdt, 112>>}

\* faulty variant: the thread enters Process without locking the mutex
EnterProcessWithoutLock ==
    /\ thread.pc = "idle"
    /\ \E pt \in ThreadPidTids :
          thread' = [pc |-> "test", pid |-> pt[1], tid |-> pt[2]]
    /\ UNCHANGED <<eitVars, script, tdtVars, clock, disableUntil, filterCall, mutex>>

\* line 523: the thread enters Process and locks the mutex of the filter
EnterProcess ==
    /\ thread.pc = "idle"
    /\ mutex = "free"
    /\ mutex' = "Process"
    /\ \E pt \in ThreadPidTids :
          thread' = [pc |-> "test", pid |-> pt[1], tid |-> pt[2]]
    /\ UNCHANGED <<eitVars, script, tdtVars, clock, disableUntil, filterCall>>

\* lines 524, 525 and 528: the thread reads disableUntil and the clock
TestDisableUntil ==
    /\ thread.pc = "test"
    /\ IF disableUntil = 0
         THEN thread' = [thread EXCEPT !.pc = "switch"] /\ UNCHANGED filterCall
       ELSE IF clock > disableUntil
         THEN thread' = [thread EXCEPT !.pc = "clear"] /\ UNCHANGED filterCall
       ELSE /\ thread' = [thread EXCEPT !.pc = "return"]
            /\ filterCall' = FilterCall(thread.pid, thread.tid, SetupOk, "dropped")
    /\ UNCHANGED <<eitVars, script, tdtVars, clock, disableUntil, mutex>>

\* line 526: the thread stores 0
ClearDisableUntil ==
    /\ thread.pc = "clear"
    /\ disableUntil' = 0
    /\ thread' = [thread EXCEPT !.pc = "switch"]
    /\ UNCHANGED <<eitVars, script, tdtVars, clock, filterCall, mutex>>

\* lines 530..542: the switch, and all of cEIT::cEIT
SwitchPid ==
    /\ thread.pc = "switch"
    /\ Dispatch(thread.pid, thread.tid, FilterSection(thread.tid), clock, TRUE, SetupOk)
    /\ thread' = [thread EXCEPT !.pc = "return"]
    /\ UNCHANGED <<script, disableUntil, mutex>>

\* line 543: the thread leaves Process and unlocks the mutex
LeaveProcess ==
    /\ thread.pc = "return"
    /\ mutex' = "free"
    /\ thread' = Idle
    /\ UNCHANGED <<eitVars, script, tdtVars, clock, disableUntil, filterCall>>

\* lines 516..519: another thread disables the filter, at any time
DisableFilterUnlocked ==
    /\ \E d \in FilterDisabledFor : SetDisableUntil(clock + d)
    /\ UNCHANGED <<eitVars, script, tdtVars, clock, filterCall, mutex, thread>>

NextThreads ==
    \/ EnterProcess
    \/ TestDisableUntil
    \/ ClearDisableUntil
    \/ SwitchPid
    \/ LeaveProcess
    \/ DisableFilterUnlocked
    \/ TickFilter

SpecThreads == Init /\ [][NextThreads]_vars

\* -------------------------------------------------------------------------
\* SpecStatus: as SpecThreads, and a third thread calls SetStatus
\* -------------------------------------------------------------------------

\* faulty variant: SetStatus does not wait for the mutex
EnterSetStatusWithoutLock ==
    /\ mutex # "SetStatus"
    /\ mutex' = "SetStatus"
    /\ UNCHANGED <<eitVars, script, tdtVars, clock, disableUntil, filterCall, thread>>

\* line 511: a thread enters SetStatus and locks the mutex of the filter
EnterSetStatus ==
    /\ mutex = "free"
    /\ mutex' = "SetStatus"
    /\ UNCHANGED <<eitVars, script, tdtVars, clock, disableUntil, filterCall, thread>>

\* lines 512..514: the hash of the cEitTables is cleared, so that the next
\* section of the service makes a new cEitTables (lines 88..91); the thread
\* leaves SetStatus and unlocks the mutex
SetStatus ==
    /\ mutex = "SetStatus"
    /\ eitTables' = EitTablesInit
    /\ mutex' = "free"
    /\ UNCHANGED <<schedule, channel, other, call, script, tdtVars, clock, disableUntil,
                   filterCall, thread>>

NextStatus == NextThreads \/ EnterSetStatus \/ SetStatus

SpecStatus == Init /\ [][NextStatus]_vars

\* -------------------------------------------------------------------------
\* SpecEndToEnd: a present section, a following section, and the present
\* section once more with another running status; any of them may get lost
\* -------------------------------------------------------------------------

ScenarioStarts == {NowT - 600, NowT, NowT + 600}

\* the k-th section of the scenario
ScenarioSections(k, start) ==
    CASE k = 1 ->
           {Section(TidPresentFollowing, 1, <<0, 1, 1>>, TidPresentFollowing,
                    <<SiEvent(100, start, HalfHour, RunningStatusRunning, <<>>)>>)}
      [] k = 2 ->
           {Section(TidPresentFollowing, 1, <<1, 1, 1>>, TidPresentFollowing,
                    <<SiEvent(101, start + HalfHour, HalfHour, rs, <<>>)>>) :
              rs \in {RunningStatusUndefined, RunningStatusNotRunning,
                      RunningStatusStartsInAFewSeconds}}
      [] OTHER ->
           {Section(TidPresentFollowing, 1, <<0, 1, 1>>, TidPresentFollowing,
                    <<SiEvent(100, start, HalfHour, RunningStatusNotRunning, <<>>)>>)}

\* the next section of the scenario arrives
FeedScenario ==
    /\ script.fed < 3
    /\ \E h \in ScenarioSections(script.fed + 1, script.start) : cEIT(h, EnvOk)
    /\ script' = [script EXCEPT !.fed = @ + 1]
    /\ UNCHANGED <<filterVars, tdtVars>>

\* a section of the scenario arrives and the constructor returns early
LoseScenario ==
    /\ \E k \in 1..3, env \in EnvAborts :
          \E h \in ScenarioSections(k, script.start) : cEIT(h, env)
    /\ UNCHANGED <<script, filterVars, tdtVars>>

InitEndToEnd == \E start \in ScenarioStarts : InitWith([start |-> start, fed |-> 0])

NextEndToEnd == FeedScenario \/ LoseScenario

SpecEndToEnd == InitEndToEnd /\ [][NextEndToEnd]_vars

\* -------------------------------------------------------------------------
\* Properties
\* -------------------------------------------------------------------------

\* whether x is an element of the sequence
Has(seq, x) == \E i \in DOMAIN seq : seq[i] = x

\* how many elements of the sequence satisfy Test
Count(seq, Test(_)) == Cardinality(Matching(seq, Test))

IsPresentFollowing(tid) == tid = TidPresentFollowing

IsSchedActual(tid) == HighNibble(tid) = TidSchedActualFirst

IsSchedOther(tid) == HighNibble(tid) = TidSchedOtherFirst

\* every event of the sequence old is an event of new, unchanged
AllKept(old, new) ==
    \A i \in DOMAIN old :
       Count(new, LAMBDA e : e = old[i]) >= Count(old, LAMBDA e : e = old[i])

\* an event but for its seen tag
Unseen(e) == [e EXCEPT !.seen = FALSE]

\* an event's id, start time and duration
Core(e) == <<e.eventID, e.startTime, e.duration>>

\* an event's title, short text and description
Texts(e) == <<e.title, e.shortText, e.description>>

\* the stored running status of the event a 0x4E record is about
StoredStatus(events, r) ==
    IF GetEventById(events, r.eventId) = 0 THEN RunningStatusUndefined
    ELSE events[GetEventById(events, r.eventId)].runningStatus

\* the events of the end-to-end scenario are the only events of the schedule
ScenarioEvents ==
    /\ Len(schedule.events) = 2
    /\ \E i, j \in DOMAIN schedule.events :
          /\ Core(schedule.events[i]) = <<100, script.start, HalfHour>>
          /\ Core(schedule.events[j]) = <<101, script.start + HalfHour, HalfHour>>

\* the stored running status of the event with the id
StatusOf(EventID) == StoredStatus(schedule.events, [eventId |-> EventID])

\* C1: after the present section with event 100 running and the following
\* section with event 101, the schedule holds exactly these two events and
\* event 100 is the one that is running; after the present section has come
\* again with "not running", the status of event 100 is "not running".
C1_EndToEnd ==
    /\ script.fed = 2 =>
         /\ ScenarioEvents
         /\ \A i \in DOMAIN schedule.events :
               schedule.events[i].runningStatus >= RunningStatusPausing
                 <=> schedule.events[i].eventID = 100
         /\ StatusOf(100) = RunningStatusRunning
    /\ script.fed = 3 =>
         /\ ScenarioEvents
         /\ StatusOf(100) = RunningStatusNotRunning

\* C1: the present section came again, Check refused it, and "not running"
\* was handed to the schedule for the running event 100
C1_Witness ==
    /\ script.fed = 3
    /\ call.exit = "done"
    /\ ~call.process
    /\ Len(call.applied) = 1
    /\ call.applied[1].eventID = 100
    /\ call.applied[1].prior = RunningStatusRunning
    /\ call.applied[1].status = RunningStatusNotRunning
    /\ ScenarioEvents

\* C2: once OnActualTp has seen a 0x5X section for the schedule, it stays so,
\* and every later 0x6X section leaves the events and the channels as they
\* are, prunes nothing, releases no store as modified and, if it gets as far
\* as the schedule, leaves at the precedence gate with both stores released.
C2_OtherTpIgnoredForever ==
    [][schedule.onActualTp =>
         /\ schedule'.onActualTp
         /\ IsSchedOther(call'.section.tid) =>
              /\ call'.exit \notin {"done", "begin"}
              /\ schedule'.events = schedule.events
              /\ channel' = channel
              /\ other' = other
              /\ call'.pruned = <<>>
              /\ ~Has(call'.ops, "SchedulesRemove(true)")
              /\ ~Has(call'.ops, "ChannelsRemove(true)")
              /\ Has(call'.ops, "GetSchedulesWrite") =>
                   /\ call'.exit = "precedence"
                   /\ Has(call'.ops, "SchedulesRemove(false)")
                   /\ Has(call'.ops, "ChannelsRemove(false)")]_vars

\* C2: a 0x6X section was stopped at the gate of a schedule holding a 0x5X event
C2_Witness ==
    /\ call.exit = "precedence"
    /\ IsSchedOther(call.section.tid)
    /\ call.section.events # <<>>
    /\ \E i \in DOMAIN schedule.events : IsSchedActual(schedule.events[i].tableID)

\* the record of a section with one event record made a new event and left
\* all others as they were
CreatedFromRecord(r) ==
    /\ Len(schedule'.events) = Len(schedule.events) + 1
    /\ AllKept(schedule.events, schedule'.events)
    /\ \E j \in DOMAIN schedule'.events :
          /\ schedule'.events[j].eventID = r.eventId
          /\ schedule'.events[j].startTime = r.startTime
          /\ ~schedule'.events[j].seen

\* C3: a 0x6X record whose start time no event has makes a new event even
\* if an event has its id; a 0x4E/0x5X record whose id no event has makes a
\* new event even if an event has its start time.  No existing event changes.
C3_LookupByIdOrByTime ==
    [][call'.exit = "done" /\ Len(call'.section.events) = 1 =>
         LET r == call'.section.events[1]
             sameId == \E i \in DOMAIN schedule.events :
                          schedule.events[i].eventID = r.eventId
             sameStart == \E i \in DOMAIN schedule.events :
                             schedule.events[i].startTime = r.startTime
         IN  /\ IsSchedOther(call'.section.tid) /\ sameId /\ ~sameStart
                  => CreatedFromRecord(r)
             /\ ~IsSchedOther(call'.section.tid) /\ sameStart /\ ~sameId
                  => CreatedFromRecord(r)]_vars

\* C3: a 0x6X record found no event by its start time although an event had
\* its id: the schedule now holds two events of that id
C3_Witness ==
    /\ call.exit = "done"
    /\ IsSchedOther(call.section.tid)
    /\ Len(call.section.events) = 1
    /\ call.found = <<NotFound>>
    /\ \E i, j \in DOMAIN schedule.events :
          /\ schedule.events[i].eventID = call.section.events[1].eventId
          /\ schedule.events[j].eventID = call.section.events[1].eventId
          /\ schedule.events[i].startTime = call.section.events[1].startTime
          /\ schedule.events[j].startTime # call.section.events[1].startTime

\* C4: a section of a table other than 0x4E leaves every event whose table
\* id is at most 0x4E as it is, but for the seen tag: id, start time,
\* duration, version, texts, the other descriptor fields and the table id.
C4_PresentFollowingKept ==
    [][call'.section.tid # TidPresentFollowing =>
         \A i \in DOMAIN schedule.events :
            schedule.events[i].tableID <= TidPresentFollowing =>
               Count(schedule'.events, LAMBDA e : Unseen(e) = Unseen(schedule.events[i]))
                 >= Count(schedule.events, LAMBDA e : Unseen(e) = Unseen(schedule.events[i]))]_vars

\* C4: a 0x5X or 0x6X record with other times or another id found an event
\* of table 0x4E
C4_Witness ==
    /\ call.exit = "done"
    /\ call.section.tid # TidPresentFollowing
    /\ Len(call.found) = 1
    /\ call.found[1].position # 0
    /\ call.found[1].event.tableID = TidPresentFollowing
    /\ Core(call.found[1].event) # <<call.section.events[1].eventId,
                                      call.section.events[1].startTime,
                                      call.section.events[1].duration>>
    /\ \E i \in DOMAIN schedule.events :
          Unseen(schedule.events[i]) = Unseen(call.found[1].event)

\* C5 as claimed: a 0x4E section keeps id, start time and duration of every
\* event a 0x5X table wrote, and a 0x6X section keeps the texts and times of
\* every event of table 0x4E.
C5_AsClaimed ==
    [][/\ IsPresentFollowing(call'.section.tid) =>
            \A i \in DOMAIN schedule.events :
               IsSchedActual(schedule.events[i].tableID) =>
                  \E j \in DOMAIN schedule'.events :
                     Core(schedule'.events[j]) = Core(schedule.events[i])
       /\ IsSchedOther(call'.section.tid) =>
            \A i \in DOMAIN schedule.events :
               IsPresentFollowing(schedule.events[i].tableID) =>
                  \E j \in DOMAIN schedule'.events :
                     /\ Core(schedule'.events[j]) = Core(schedule.events[i])
                     /\ Texts(schedule'.events[j]) = Texts(schedule.events[i])]_vars

\* C5, amended: a 0x5X or 0x6X section keeps id, start time, duration and
\* texts of every event of table 0x4E; a 0x4E record that finds an event a
\* 0x5X table wrote overwrites it: the event takes the record's id, start
\* time and duration and becomes an event of table 0x4E.
C5_PresentFollowingWins ==
    [][/\ IsSchedActual(call'.section.tid) \/ IsSchedOther(call'.section.tid) =>
            \A i \in DOMAIN schedule.events :
               IsPresentFollowing(schedule.events[i].tableID) =>
                  \E j \in DOMAIN schedule'.events :
                     /\ IsPresentFollowing(schedule'.events[j].tableID)
                     /\ Core(schedule'.events[j]) = Core(schedule.events[i])
                     /\ Texts(schedule'.events[j]) = Texts(schedule.events[i])
       /\ /\ IsPresentFollowing(call'.section.tid)
          /\ call'.exit = "done"
          /\ Len(call'.found) = 1
          /\ call'.found[1].position # 0
          /\ IsSchedActual(call'.found[1].event.tableID)
          => /\ Len(schedule'.events) = Len(schedule.events)
             /\ Count(schedule'.events,
                      LAMBDA e : /\ IsPresentFollowing(e.tableID)
                                 /\ Core(e) = <<call'.section.events[1].eventId,
                                                call'.section.events[1].startTime,
                                                call'.section.events[1].duration>>)
                  > Count(schedule.events,
                          LAMBDA e : /\ IsPresentFollowing(e.tableID)
                                     /\ Core(e) = <<call'.section.events[1].eventId,
                                                    call'.section.events[1].startTime,
                                                    call'.section.events[1].duration>>)]_vars

\* C5: a 0x4E record found an event of table 0x50 that started at another
\* time, and the event now starts when the record says
C5_Witness ==
    /\ call.exit = "done"
    /\ IsPresentFollowing(call.section.tid)
    /\ Len(call.found) = 1
    /\ call.found[1].position # 0
    /\ IsSchedActual(call.found[1].event.tableID)
    /\ call.found[1].event.startTime # call.section.events[1].startTime
    /\ \A i \in DOMAIN schedule.events :
          schedule.events[i].eventID = call.section.events[1].eventId =>
             /\ schedule.events[i].startTime = call.section.events[1].startTime
             /\ IsPresentFollowing(schedule.events[i].tableID)

\* C6: when section 0 of table 0x4E reports "not running" for an event, the
\* status handed to the schedule is "pausing" if the event's stored status
\* is "pausing", and "not running" if it is anything else.
C6_PresentKeepsPausing ==
    [][/\ IsPresentFollowing(call'.section.tid)
       /\ call'.section.sectionNumber = 0
       /\ call'.exit = "done"
       /\ Len(call'.section.events) = 1
       /\ call'.section.events[1].runningStatus = RunningStatusNotRunning
       => /\ Len(call'.applied) = 1
          /\ call'.applied[1].eventID = call'.section.events[1].eventId
          /\ call'.applied[1].status =
               IF StoredStatus(schedule.events, call'.section.events[1]) = RunningStatusPausing
                 THEN RunningStatusPausing
                 ELSE RunningStatusNotRunning]_vars

\* C6: the present section reported "not running" for a pausing event, and
\* the event is still pausing
C6_Witness ==
    /\ call.exit = "done"
    /\ call.section.sectionNumber = 0
    /\ Len(call.applied) = 1
    /\ call.applied[1].reported = RunningStatusNotRunning
    /\ call.applied[1].prior = RunningStatusPausing
    /\ call.applied[1].status = RunningStatusPausing
    /\ StoredStatus(schedule.events, call.section.events[1]) = RunningStatusPausing

\* C7 as claimed: when a section of table 0x4E other than section 0 reports
\* "not running" for an event, the status handed to the schedule is
\* "undefined".
C7_AsClaimed ==
    (/\ IsPresentFollowing(call.section.tid)
     /\ call.section.sectionNumber # 0
     /\ call.exit = "done")
    => \A k \in DOMAIN call.applied :
          call.applied[k].reported = RunningStatusNotRunning =>
             call.applied[k].status = RunningStatusUndefined

\* C7, amended: when a section of table 0x4E other than section 0 reports
\* "not running" for an event, the status handed to the schedule is
\* "undefined" unless the event's stored status is "not running" already;
\* then it is "not running".
C7_FollowingFallsBack ==
    [][/\ IsPresentFollowing(call'.section.tid)
       /\ call'.section.sectionNumber # 0
       /\ call'.exit = "done"
       /\ Len(call'.section.events) = 1
       /\ call'.section.events[1].runningStatus = RunningStatusNotRunning
       => /\ Len(call'.applied) = 1
          /\ call'.applied[1].eventID = call'.section.events[1].eventId
          /\ call'.applied[1].status =
               IF StoredStatus(schedule.events, call'.section.events[1]) = RunningStatusNotRunning
                 THEN RunningStatusNotRunning
                 ELSE RunningStatusUndefined]_vars

\* C7: the following section reported "not running" for a running event,
\* and the event's status is now undefined
C7_Witness ==
    /\ call.exit = "done"
    /\ call.section.sectionNumber # 0
    /\ Len(call.applied) = 1
    /\ call.applied[1].reported = RunningStatusNotRunning
    /\ call.applied[1].prior = RunningStatusRunning
    /\ call.applied[1].status = RunningStatusUndefined
    /\ StoredStatus(schedule.events, call.section.events[1]) = RunningStatusUndefined

\* the section is one the syncer of its table has processed in this version
IsRepeated(tables, h) ==
    /\ tables.sectionSyncer[Index(h.tid)].version = h.version
    /\ h.sectionNumber \in tables.sectionSyncer[Index(h.tid)].seen

\* how many times the operation is in the sequence
Times(ops, op) == Count(ops, LAMBDA x : x = op)

\* an event but for its running status and the seen tag that watches it
Unwatched(e) == [e EXCEPT !.runningStatus = RunningStatusUndefined, !.seen = FALSE]

\* what only a section that Check accepts may write
Merged(e) ==
    <<e.version, e.title, e.shortText, e.description, e.contents, e.parentalRating,
      e.components>>

\* C8 as claimed: a section of an unchanged version whose number has been
\* processed sets no modification flag; on a table other than 0x4E it asks
\* for no lock; on table 0x4E both stores are released unmodified and
\* nothing but the running status of the events changes.
C8_AsClaimed ==
    [][IsRepeated(eitTables, call'.section) /\ call'.exit # "crc" =>
         /\ ~Has(call'.ops, "SchedulesRemove(true)")
         /\ ~Has(call'.ops, "ChannelsRemove(true)")
         /\ ~IsPresentFollowing(call'.section.tid) => call'.ops = <<"Check">>
         /\ IsPresentFollowing(call'.section.tid) /\ call'.exit = "done" =>
              /\ Has(call'.ops, "SchedulesRemove(false)")
              /\ Has(call'.ops, "ChannelsRemove(false)")
              /\ Len(schedule'.events) = Len(schedule.events)
              /\ \A i \in DOMAIN schedule.events :
                    Unwatched(schedule'.events[i]) = Unwatched(schedule.events[i])
              /\ channel' = channel
              /\ other' = other]_vars

\* C8, amended: a section of an unchanged version whose number has been
\* processed sets no modification flag; on a table other than 0x4E it asks
\* for no lock and changes nothing; on table 0x4E both stores are released
\* unmodified, Processed is not called, nothing is pruned, the channels stay
\* as they are and no event that exists gets another version, text or other
\* descriptor field; what the lookup of an event does (the seen tag, the id,
\* start time, duration and table id of a found event, a new event for a
\* record that finds none) and the running status are the effects it has.
C8_RepeatedSectionSetsNoFlag ==
    [][IsRepeated(eitTables, call'.section) /\ call'.exit # "crc" =>
         /\ ~call'.process
         /\ ~Has(call'.ops, "SchedulesRemove(true)")
         /\ ~Has(call'.ops, "ChannelsRemove(true)")
         /\ ~Has(call'.ops, "Processed")
         /\ call'.pruned = <<>>
         /\ eitTables'.sectionSyncer = eitTables.sectionSyncer
         /\ channel' = channel
         /\ other' = other
         /\ ~IsPresentFollowing(call'.section.tid) =>
              /\ call'.ops = <<"Check">>
              /\ schedule' = schedule
         /\ IsPresentFollowing(call'.section.tid) /\ call'.exit = "done" =>
              /\ Has(call'.ops, "SchedulesRemove(false)")
              /\ Has(call'.ops, "ChannelsRemove(false)")
              /\ Len(schedule'.events) >= Len(schedule.events)
              /\ \A i \in DOMAIN schedule.events :
                    Merged(schedule'.events[i]) = Merged(schedule.events[i])
              /\ \A i \in DOMAIN schedule'.events \ DOMAIN schedule.events :
                    Merged(schedule'.events[i]) = Merged(NewEvent(0, 0, 0))]_vars

\* C8: table 0x4E sent a processed section once more with a record that
\* found no event: the schedule has a new event, neither store is modified
C8_Witness ==
    /\ IsPresentFollowing(call.section.tid)
    /\ call.exit = "done"
    /\ ~call.process
    /\ call.found = <<NotFound>>
    /\ Has(call.ops, "SchedulesRemove(false)")
    /\ Has(call.ops, "ChannelsRemove(false)")
    /\ Len(schedule.events) = 2
    /\ \E i \in DOMAIN schedule.events : Merged(schedule.events[i]) = Merged(NewEvent(0, 0, 0))

\* C9: a section of a new version leaves its table's syncer with no section
\* seen but the section itself, so the syncer is complete again only when
\* all sections up to the last one are seen in the new version; and after
\* Processed the tables are complete if and only if the syncer of the table
\* is and so are all syncers from 0 to Index(LastTableId); a call that does
\* not get to Processed leaves the flag as it is.
C9_VersionResetAndComplete ==
    [][call'.exit # "crc" =>
         LET h == call'.section
             old == eitTables.sectionSyncer[Index(h.tid)]
             new == eitTables'.sectionSyncer[Index(h.tid)]
             processed == Has(call'.ops, "Processed")
         IN  /\ new.version = h.version
             /\ new.seen = (IF old.version = h.version THEN old.seen ELSE {})
                             \cup (IF processed THEN {h.sectionNumber} ELSE {})
             /\ old.version # h.version /\ ~processed => ~new.complete
             /\ processed =>
                  /\ new.complete <=> \A n \in 0..h.lastSectionNumber : n \in new.seen
                  /\ eitTables'.complete <=>
                       /\ new.complete
                       /\ \A i \in 0..Index(h.lastTableId) :
                             eitTables'.sectionSyncer[i].complete
             /\ ~processed => eitTables'.complete = eitTables.complete]_vars

\* C9: table 0x50 is complete, table 0x4E was complete and is not in its
\* new version, and so the tables are not complete
C9_Witness ==
    /\ Has(call.ops, "Processed")
    /\ call.section.tid = TidSchedActualFirst
    /\ eitTables.sectionSyncer[Index(TidSchedActualFirst)].complete
    /\ eitTables.sectionSyncer[0].version = 2
    /\ eitTables.sectionSyncer[0].seen # {}
    /\ ~eitTables.sectionSyncer[0].complete
    /\ ~eitTables.complete

\* the exits of the constructor before the loop over the events, but for
\* the CRC check and the section Check refuses
AbortExits == {"clock", "channelsLock", "channel", "schedulesLock", "precedence", "begin"}

ModifiedByCall(c) == Has(c.ops, "SchedulesRemove(true)")

\* the section syncer of the table of the section, after the call
SyncerOf(tables, h) == tables.sectionSyncer[Index(h.tid)]

\* C11 as claimed: a call that reaches the post-loop step prunes exactly when
\* it processed the section, modified the schedule and either the table id
\* is 0x50 or above or, for table 0x4E, the hierarchy-wide complete flag is
\* set and both section 0 and section 1 of the version have been received
C11_AsClaimed ==
    [][call'.exit = "done" =>
         (call'.pruned # <<>> <=>
            /\ call'.process
            /\ ModifiedByCall(call')
            /\ \/ call'.section.tid >= TidSchedActualFirst
               \/ /\ call'.section.tid = TidPresentFollowing
                  /\ eitTables'.complete
                  /\ {0, 1} \subseteq SyncerOf(eitTables', call'.section).seen)]_vars

\* C11: a call that reaches the post-loop step prunes exactly when it
\* processed the section, modified the schedule and either the table id is
\* 0x50 or above or the section syncer of the table of the section reports
\* the table complete; a 0x4E section whose last section number is 1 prunes
\* only when sections 0 and 1 of the version have both been processed
C11_PrunesOnTableComplete ==
    [][call'.exit = "done" =>
         /\ call'.pruned # <<>> <=>
               /\ call'.process
               /\ ModifiedByCall(call')
               /\ \/ call'.section.tid >= TidSchedActualFirst
                  \/ SyncerComplete(SyncerOf(eitTables', call'.section))
         /\ ( /\ call'.pruned # <<>>
              /\ call'.section.tid = TidPresentFollowing
              /\ call'.section.lastSectionNumber = 1 )
            => {0, 1} \subseteq SyncerOf(eitTables', call'.section).seen]_vars

\* a 0x4E table of one section was pruned after its section 0, the later
\* table the section announces not being complete
C11_Witness ==
    /\ call.exit = "done"
    /\ call.section.tid = TidPresentFollowing
    /\ call.section.lastSectionNumber = 0
    /\ call.pruned # <<>>
    /\ SyncerOf(eitTables, call.section).seen = {0}
    /\ ~eitTables.complete

\* -------------------------------------------------------------------------
\* C19: bogus events and NVOD reference events
\* -------------------------------------------------------------------------

\* the events of the schedule
EventsOf(sched) == {sched.events[i] : i \in DOMAIN sched.events}

\* the records of a section that no EPG handler claims
Unclaimed(h) == {h.events[i] : i \in {j \in DOMAIN h.events : ~h.events[j].claimed}}

\* the section carries records, and every record is dropped as bogus
OnlyBogus(h) ==
    /\ h.events # <<>>
    /\ \A i \in DOMAIN h.events : IsBogus(h.events[i].startTime, h.events[i].duration)

\* the first half of C19: no event of the schedule ever carries a start time
\* of 0 or a duration of 0, and a section of bogus records only finds no
\* event and leaves the events as they were, but for the clearing of the
\* running status that follows an empty present section
C19_BogusDropped ==
    [][call'.exit = "done" =>
         /\ \A e \in EventsOf(schedule') : ~IsBogus(e.startTime, e.duration)
         /\ OnlyBogus(call'.section) =>
              /\ call'.found = <<>>
              /\ call'.applied = <<>>
              /\ schedule'.events \in {schedule.events, ClrRunningStatus(schedule.events)}]_vars

\* C19: a record with start time 0, or with a start time and duration 0, is
\* dropped without creating or updating any event, and an NVOD reference
\* record (negative start time) of a processed section is afterwards an
\* event of the schedule
C19_BogusDroppedNvodKept ==
    [][call'.exit = "done" =>
         /\ \A e \in EventsOf(schedule') : ~IsBogus(e.startTime, e.duration)
         /\ OnlyBogus(call'.section) =>
              schedule'.events \in {schedule.events, ClrRunningStatus(schedule.events)}
         /\ \A r \in Unclaimed(call'.section) :
              (call'.process /\ r.startTime < 0) =>
                 \E e \in EventsOf(schedule') : e.startTime = r.startTime]_vars

\* a section of bogus records only went through the loop with events in the
\* schedule
C19_Witness ==
    /\ call.exit = "done"
    /\ call.process
    /\ OnlyBogus(call.section)
    /\ schedule.events # <<>>

\* -------------------------------------------------------------------------
\* C20: an empty present section clears the running status
\* -------------------------------------------------------------------------

\* the section carries no valid record: none at all, or only records that
\* are bogus or that an EPG handler has claimed
NoValidEvent(h) ==
    \A r \in Unclaimed(h) : IsBogus(r.startTime, r.duration)

\* C20: a call that reaches the post-loop step clears the running status
\* exactly when the section is section 0 of table 0x4E and carries no valid
\* record, after which no event of the schedule is running or pausing and
\* nothing else has changed; a section of another number without a valid
\* record leaves the events as they were; every section of table 0x4E
\* leaves the schedule marked 'present seen'
C20_EmptyPresentClears ==
    [][call'.exit = "done" =>
         /\ Has(call'.ops, "ClrRunningStatus") <=>
               /\ call'.section.tid = TidPresentFollowing
               /\ call'.section.sectionNumber = 0
               /\ NoValidEvent(call'.section)
         /\ Has(call'.ops, "ClrRunningStatus") =>
               /\ schedule'.events = ClrRunningStatus(schedule.events)
               /\ \A e \in EventsOf(schedule') : e.runningStatus < RunningStatusPausing
         /\ (NoValidEvent(call'.section) /\ ~Has(call'.ops, "ClrRunningStatus")) =>
               schedule'.events = schedule.events
         /\ call'.section.tid = TidPresentFollowing => schedule'.presentSeen]_vars

\* an empty present section has just taken the running status from an event
\* that was running
C20_Witness ==
    /\ call.exit = "done"
    /\ Has(call.ops, "ClrRunningStatus")
    /\ call.section.events # <<>>
    /\ \E e \in EventsOf(schedule) : e.runningStatus = RunningStatusNotRunning

\* -------------------------------------------------------------------------
\* C14: the debounce of cTDT
\* -------------------------------------------------------------------------

\* the step is a call of cTDT::cTDT
IsTdtCall == tdtCall'.n # tdtCall.n

\* the call asked for a correction of the system clock
Corrects(c) == c.action # "none"

\* C14: a correction is made only when the difference exceeds MAX_TIME_DIFF
\* and the observation right before this one saw the same difference; so
\* none is made on the first observation, and none when the preceding
\* observation saw another difference
C14_TwoConsecutiveAgree ==
    [][(IsTdtCall /\ Corrects(tdtCall')) =>
         /\ Abs(tdtCall'.diff) > MAX_TIME_DIFF
         /\ tdtCall.n > 0
         /\ tdtCall.diff = tdtCall'.diff]_vars

\* what the constructor does ensure: a correction is made only when the
\* difference exceeds MAX_TIME_DIFF and equals the one stored by the last
\* observation that exceeded MAX_TIME_DIFF, whose time was another
C14_StoredDiffAgrees ==
    [][(IsTdtCall /\ Corrects(tdtCall')) =>
         /\ Abs(tdtCall'.diff) > MAX_TIME_DIFF
         /\ tdtCall.n > 0
         /\ oldDiff = tdtCall'.diff
         /\ oldTime # tdtCall'.dvbtim]_vars

\* -------------------------------------------------------------------------
\* C15: which correction cTDT makes
\* -------------------------------------------------------------------------

\* the call found the time to differ from the one stored, by the stored amount
DebouncedCall(c) == Debounced(oldTime, oldDiff, c.dvbtim, c.diff)

\* C15: a difference of at most MAX_TIME_DIFF causes no action and changes
\* nothing; a debounced difference above MAX_ADJ_DIFF sets the system clock
\* to the broadcast time, whatever lastAdj is, and leaves lastAdj alone; a
\* debounced difference above MAX_TIME_DIFF and of at most MAX_ADJ_DIFF
\* never sets the clock, it can only ask for a smooth adjustment
C15_ActionSelection ==
    [][IsTdtCall =>
         LET c == tdtCall'
         IN  /\ Abs(c.diff) <= MAX_TIME_DIFF =>
                  /\ ~Corrects(c)
                  /\ clock' = c.loctim
                  /\ UNCHANGED <<lastAdj, oldTime, oldDiff>>
             /\ (DebouncedCall(c) /\ Abs(c.diff) > MAX_ADJ_DIFF) =>
                  /\ c.action = "clock_settime"
                  /\ clock' = IF c.ok THEN c.dvbtim ELSE c.loctim
                  /\ lastAdj' = lastAdj
             /\ (DebouncedCall(c) /\ Abs(c.diff) > MAX_TIME_DIFF
                                 /\ Abs(c.diff) <= MAX_ADJ_DIFF) =>
                  /\ c.action \in {"adjtime", "none"}
                  /\ clock' = c.loctim]_vars

\* the clock has been set less than ADJ_DELTA seconds after a smooth
\* adjustment
C15_Witness ==
    /\ tdtCall.action = "clock_settime"
    /\ tdtCall.ok
    /\ clock = tdtCall.dvbtim
    /\ lastAdj # 0
    /\ tdtCall.loctim - lastAdj < ADJ_DELTA

\* -------------------------------------------------------------------------
\* C16: the rate limit of the smooth adjustment
\* -------------------------------------------------------------------------

\* the call saw a debounced difference that is to be adjusted smoothly
ModerateCall(c) ==
    /\ DebouncedCall(c)
    /\ Abs(c.diff) > MAX_TIME_DIFF
    /\ Abs(c.diff) <= MAX_ADJ_DIFF

\* C16 as claimed: for a debounced moderate difference a smooth adjustment is
\* requested exactly when at least ADJ_DELTA seconds have passed since lastAdj
C16_AsClaimed ==
    [][(IsTdtCall /\ ModerateCall(tdtCall')) =>
         (tdtCall'.action = "adjtime" <=> tdtCall'.loctim - lastAdj >= ADJ_DELTA)]_vars

\* C16: for a debounced moderate difference a smooth adjustment is requested
\* exactly when more than ADJ_DELTA seconds have passed since lastAdj; a
\* request sets lastAdj to the current time whether adjtime succeeds or not,
\* no other call changes lastAdj, and two requests are more than ADJ_DELTA
\* seconds apart
C16_SlewRateLimited ==
    [][IsTdtCall =>
         /\ ModerateCall(tdtCall') =>
              (tdtCall'.action = "adjtime" <=> tdtCall'.loctim - lastAdj > ADJ_DELTA)
         /\ tdtCall'.action = "adjtime" =>
              /\ lastAdj' = tdtCall'.loctim
              /\ lastAdj' - lastAdj > ADJ_DELTA
         /\ tdtCall'.action # "adjtime" => lastAdj' = lastAdj]_vars

\* a second smooth adjustment has been requested, and adjtime failed
C16_Witness ==
    /\ tdtCall.action = "adjtime"
    /\ ~tdtCall.ok
    /\ lastAdj = tdtCall.loctim
    /\ lastAdj > NowT + ADJ_DELTA

\* -------------------------------------------------------------------------
\* C12: where cEitFilter::Process sends a section
\* -------------------------------------------------------------------------

\* the step is a call of cEitFilter::Process
IsProcessCall == filterCall'.n # filterCall.n

\* C12: a section that is not dropped because the filter is disabled goes to
\* cEIT exactly when its pid is 0x12 and its table id is 0x4E or one of
\* 0x50..0x6F, and to cTDT exactly when its pid is 0x14, the system time is
\* to be set, and the time source and the time transponder that are set up
\* are those of the filter; a section that goes to neither changes nothing
C12_Routing ==
    [][(IsProcessCall /\ filterCall'.did # "dropped") =>
         LET c == filterCall'
         IN  /\ c.did = "cEIT" <=>
                  /\ c.pid = 18
                  /\ c.tid = 78 \/ c.tid \in 80..111
             /\ c.did = "cEIT" =>
                  /\ call'.section.tid = c.tid
                  /\ call'.exit # "none"
                  /\ UNCHANGED <<tdtVars, clock>>
             /\ c.did = "cTDT" <=>
                  /\ c.pid = 20
                  /\ c.setup.SetSystemTime
                  /\ c.setup.TimeSource = c.setup.Source
                  /\ c.setup.TimeTransponder # 0
                  /\ IsTransponder(c.setup.Transponder, c.setup.TimeTransponder)
             /\ c.did = "cTDT" =>
                  /\ tdtCall'.n = tdtCall.n + 1
                  /\ UNCHANGED eitVars
             /\ c.did \in {"cEIT", "cTDT", "none"}
             /\ c.did = "none" => UNCHANGED <<eitVars, tdtVars, clock>>]_vars

\* a section of table 0x4F has been discarded by a filter that has sent
\* sections to cEIT and to cTDT
C12_Witness ==
    /\ filterCall.pid = PidEit
    /\ filterCall.tid = TidPresentFollowing + 1
    /\ filterCall.did = "none"
    /\ call.exit = "done"
    /\ tdtCall.n > 0

\* -------------------------------------------------------------------------
\* C13: the time the filter is disabled for
\* -------------------------------------------------------------------------

\* C13: while disableUntil is set and not yet over, Process drops the section
\* and touches neither the section syncers, the stores, the statics of cTDT
\* nor disableUntil; the first call after it is over sets disableUntil to 0
\* and processes that very section as if the filter had never been disabled,
\* and so do the calls that find disableUntil 0
C13_DisabledUntil ==
    [][IsProcessCall =>
         LET c == filterCall'
             over == clock > disableUntil
         IN  /\ (disableUntil # 0 /\ ~over) =>
                  /\ c.did = "dropped"
                  /\ UNCHANGED <<eitVars, tdtVars, clock, disableUntil>>
             /\ (disableUntil = 0 \/ over) =>
                  /\ disableUntil' = 0
                  /\ c.did # "dropped"
                  /\ RoutesToEit(c.pid, c.tid) =>
                       /\ c.did = "cEIT"
                       /\ call' = CEit(State, call'.section, [EnvOk EXCEPT !.Now = clock]).call
                  /\ RoutesToTdt(c.pid, c.setup) => c.did = "cTDT"]_vars

\* the first section after the time was over has been sent to cEIT
C13_Witness ==
    /\ filterCall.cleared
    /\ filterCall.did = "cEIT"
    /\ disableUntil = 0
    /\ call.exit = "done"

\* -------------------------------------------------------------------------
\* C17: what guards the section syncers of a service
\* -------------------------------------------------------------------------

\* the step is the switch of Process handing a section to cEIT
IsEitCall == thread.pc = "switch" /\ filterCall'.did = "cEIT"

\* the i-th thing the call asked for was asked while it held the schedules
\* write lock
UnderSchedulesLock(ops, i) ==
    /\ \E j \in 1..(i - 1) : ops[j] = "GetSchedulesWrite"
    /\ \E k \in (i + 1)..Len(ops) :
          ops[k] \in {"SchedulesRemove(true)", "SchedulesRemove(false)"}

C18_StoresHoldMutex ==
    [][disableUntil' # disableUntil => (thread.pc = "clear" /\ mutex = "Process")]_vars

\* C18: the accesses to disableUntil exclude each other, so that no
\* interleaving loses a time newly set: disableUntil goes back to 0 only
\* when the time it holds is over
C18_NoWindowLost ==
    [][(disableUntil # 0 /\ disableUntil' = 0) => clock > disableUntil]_vars

\* the records of a section that get past the tests of lines 145..154, the
\* clock reading now
Retained(h, now) ==
    SelectSeq(h.events, LAMBDA si : /\ ~si.claimed
                                    /\ ~IsBogus(si.startTime, si.duration)
                                    /\ ~IsExpired(si.startTime, si.duration, now))

\* the earliest start and the latest end of a non-empty sequence of records
EarliestStart(R) ==
    CHOOSE t \in {R[i].startTime : i \in DOMAIN R} :
       \A i \in DOMAIN R : t <= R[i].startTime

LatestEnd(R) ==
    CHOOSE t \in {R[i].startTime + R[i].duration : i \in DOMAIN R} :
       \A i \in DOMAIN R : t >= R[i].startTime + R[i].duration

\* C21 as claimed: the window handed to the pruning is the earliest start and
\* the latest end of the valid records of the section, whatever their order.
C21_AsClaimed ==
    [][call'.pruned # <<>> =>
         LET R == Retained(call'.section, NowT)
         IN  R # <<>> /\ call'.pruned = <<EarliestStart(R), LatestEnd(R)>>]_vars

\* C21: the window handed to the pruning is the start of the first valid
\* record of the section and the end of its last valid record, in the order
\* of the records; for table 0x4E with last section number 1 it is the pair
\* of times the cEitTables keeps.
C21_FirstStartLastEnd ==
    [][call'.pruned # <<>> =>
         LET R == Retained(call'.section, NowT)
         IN  /\ R # <<>>
             /\ call'.pruned =
                  IF UsesTableWindow(call'.section.tid, call'.section.lastSectionNumber)
                    THEN <<eitTables'.tableStart, eitTables'.tableEnd>>
                    ELSE <<R[1].startTime,
                           R[Len(R)].startTime + R[Len(R)].duration>>]_vars

\* C21: a table 0x50 section whose later programme comes first was pruned
\* with a window that is the one second at which the earlier programme ends
C21_Witness ==
    /\ call.exit = "done"
    /\ call.section.tid = TidSchedActualFirst
    /\ call.section.events = <<WindowSecond, WindowFirst>>
    /\ call.pruned = <<T + HalfHour, T + HalfHour>>

\* the start a section provides: that of its first valid record, 0 if none
StartProvided(h) ==
    LET R == Retained(h, NowT) IN IF R = <<>> THEN 0 ELSE R[1].startTime

\* the end a section provides: that of its last valid record, 0 if none
EndProvided(h) ==
    LET R == Retained(h, NowT)
    IN  IF R = <<>> THEN 0 ELSE R[Len(R)].startTime + R[Len(R)].duration

\* C30 as claimed: table 0x4E with last section number 1 is pruned with the
\* start that the most recent section 0 provides and the end that the most
\* recent following section provides, never with times kept from before.
C30_AsClaimed ==
    [][/\ call'.pruned # <<>>
       /\ call'.section.tid = TidPresentFollowing
       /\ call'.section.lastSectionNumber = 1
       => call'.pruned = <<StartProvided(script'.present),
                           EndProvided(script'.following)>>]_vars

\* C30: table 0x4E with last section number 1 is pruned with the two times
\* the cEitTables keeps; a section 0 of table 0x4E with a valid record sets
\* the start, a later section of it with a valid record sets the end, and
\* nothing else changes them: not a section without a valid record, not a new
\* version.
C30_KeptWindowUsed ==
    [][LET h == call'.section
           R == Retained(h, NowT)
           sets == call'.exit = "done" /\ h.tid = TidPresentFollowing /\ R # <<>>
       IN  /\ eitTables'.tableStart =
                IF sets /\ h.sectionNumber = 0 THEN StartProvided(h)
                ELSE eitTables.tableStart
           /\ eitTables'.tableEnd =
                IF sets /\ h.sectionNumber # 0 THEN EndProvided(h)
                ELSE eitTables.tableEnd
           /\ call'.pruned # <<>> /\ h.tid = TidPresentFollowing /\ h.lastSectionNumber = 1
                => call'.pruned = <<eitTables'.tableStart, eitTables'.tableEnd>>]_vars

\* C30: the last section 0 of table 0x4E carried no valid record, and the
\* following section of the new version was pruned with the start that the
\* section 0 of the version before had left
C30_Witness ==
    /\ call.pruned = <<T, T + 2 * HalfHour>>
    /\ call.section.tid = TidPresentFollowing
    /\ call.section.version = 2
    /\ call.section.sectionNumber = 1
    /\ script.present.version = 2
    /\ Retained(script.present, NowT) = <<>>

\* every record of the section ended before the linger limit, none is bogus
\* or taken by an EPG handler
OnlyExpired(h, now) ==
    /\ h.events # <<>>
    /\ \A i \in DOMAIN h.events :
          /\ ~h.events[i].claimed
          /\ ~IsBogus(h.events[i].startTime, h.events[i].duration)
          /\ h.events[i].startTime + h.events[i].duration < now - EPG_LINGER_TIME

C22_AsClaimed ==
    [][/\ call'.exit = "done"
       /\ ~call'.process
       /\ call'.section.tid = TidPresentFollowing
       => /\ Len(schedule'.events) = Len(schedule.events)
          /\ \A i \in DOMAIN schedule.events :
                Unwatched(schedule'.events[i]) = Unwatched(schedule.events[i])]_vars

\* C22: a section of table 0x4E that Check refuses leaves the version, the
\* title, the short text, the description, the contents, the parental rating
\* and the components of every event and the channels with their links as
\* they are, an event it adds has none of them, Processed is not called, and
\* the events are neither sorted nor pruned; the running status of every
\* record that reports one is applied.
C22_RefusedSectionMergesNothing ==
    [][/\ call'.exit = "done"
       /\ ~call'.process
       /\ call'.section.tid = TidPresentFollowing
       => /\ \A i \in DOMAIN schedule.events :
                /\ i \in DOMAIN schedule'.events
                /\ Merged(schedule'.events[i]) = Merged(schedule.events[i])
          /\ \A i \in DOMAIN schedule'.events \ DOMAIN schedule.events :
                Merged(schedule'.events[i]) = Merged(NewEvent(0, 0, 0))
          /\ channel' = channel
          /\ other' = other
          /\ ~Has(call'.ops, "Processed")
          /\ call'.pruned = <<>>
          /\ Len(call'.applied) =
               Len(SelectSeq(call'.section.events,
                             LAMBDA si : si.runningStatus >= RunningStatusNotRunning))]_vars

\* C22: table 0x4E sent a processed section once more, its record naming an
\* event that table 0x50 had made: the event is running and of table 0x4E
\* now, and has the title and the version that table 0x50 gave it
C22_Witness ==
    /\ call.exit = "done"
    /\ ~call.process
    /\ call.section.tid = TidPresentFollowing
    /\ Len(call.found) = 1
    /\ call.found[1].position # 0
    /\ call.found[1].event.tableID = TidSchedActualFirst
    /\ call.found[1].event.runningStatus = RunningStatusUndefined
    /\ call.section.events[1].descriptors = GateDescriptors(TidPresentFollowing)
    /\ \E i \in DOMAIN schedule.events :
          /\ schedule.events[i].eventID = call.section.events[1].eventId
          /\ schedule.events[i].tableID = TidPresentFollowing
          /\ schedule.events[i].runningStatus = RunningStatusRunning
          /\ Merged(schedule.events[i]) = Merged(call.found[1].event)
          /\ schedule.events[i].title = TidSchedActualFirst

\* C23 as claimed: the schedules are released as modified exactly if the
\* section added an event or changed one, and the channels are released as
\* modified exactly if a channel changed.
C23_AsClaimed ==
    [][call'.exit = "done" =>
         /\ Has(call'.ops, "SchedulesRemove(true)") <=> schedule'.events # schedule.events
         /\ Has(call'.ops, "ChannelsRemove(true)") <=> (channel' # channel \/ other' # other)]_vars

\* the lookup of the i-th valid record of the call led to the end of the
\* loop body: it found no event, or one that is not kept from the table
MergedRecord(c, i) ==
    \/ c.found[i].position = 0
    \/ ~(c.found[i].event.tableID <= TidPresentFollowing
         /\ c.section.tid # TidPresentFollowing)

\* C23: the schedules are released as modified exactly if Check accepted the
\* section and one of its valid records got to the end of the loop body,
\* which it does unless it found an event of table 0x4E and is of another
\* table; what a refused section of table 0x4E, the lookup of a kept event
\* or the clearing of the running status change is released as unmodified.
\* The channels are released as modified exactly if a channel changed.
C23_ModifiedIffRecordMerged ==
    [][call'.exit = "done" =>
         /\ Has(call'.ops, "SchedulesRemove(true)") <=>
              /\ call'.process
              /\ \E i \in DOMAIN call'.found : MergedRecord(call', i)
         /\ ~Has(call'.ops, "SchedulesRemove(true)") => Has(call'.ops, "SchedulesRemove(false)")
         /\ Has(call'.ops, "ChannelsRemove(true)") <=> (channel' # channel \/ other' # other)]_vars

\* C23: a refused section of table 0x4E added an event and made it running,
\* and the schedules were released as unmodified
C23_Witness ==
    /\ call.exit = "done"
    /\ ~call.process
    /\ call.found = <<NotFound>>
    /\ Has(call.ops, "SchedulesRemove(false)")
    /\ \E i \in DOMAIN schedule.events :
          /\ schedule.events[i].eventID = call.section.events[1].eventId
          /\ schedule.events[i].runningStatus = RunningStatusRunning
          /\ schedule.events[i].version = NewEvent(0, 0, 0).version

\* the operations on the channels lock and on the schedules lock
AsksChannels(op) == op \in {"GetChannelsWrite", "GetChannelsWrite:timeout"}

AsksSchedules(op) == op \in {"GetSchedulesWrite", "GetSchedulesWrite:timeout"}

FreesChannels(op) == op \in {"ChannelsRemove(true)", "ChannelsRemove(false)"}

FreesSchedules(op) == op \in {"SchedulesRemove(true)", "SchedulesRemove(false)"}

\* the operations keep the order of the locks, ch and sc telling whether the
\* channels and the schedules are locked before them: the channels are asked
\* for while nothing is locked, the schedules while the channels alone are,
\* the schedules are released while both are locked, the channels while they
\* alone are, and nothing is locked at the end
RECURSIVE Disciplined(_, _, _)
Disciplined(ops, ch, sc) ==
    IF ops = <<>> THEN ~ch /\ ~sc
    ELSE LET op == Head(ops)
         IN  IF AsksChannels(op)
               THEN ~ch /\ ~sc /\ Disciplined(Tail(ops), op = "GetChannelsWrite", FALSE)
             ELSE IF AsksSchedules(op)
               THEN ch /\ ~sc /\ Disciplined(Tail(ops), TRUE, op = "GetSchedulesWrite")
             ELSE IF FreesSchedules(op)
               THEN ch /\ sc /\ Disciplined(Tail(ops), TRUE, FALSE)
             ELSE IF FreesChannels(op)
               THEN ch /\ ~sc /\ Disciplined(Tail(ops), FALSE, FALSE)
             ELSE (sc => ch) /\ Disciplined(Tail(ops), ch, sc)

\* C24: every call asks for the channels before the schedules, releases each
\* lock it got exactly once, the schedules before the channels, holds the
\* schedules only while it holds the channels, and returns holding neither.
C24_LockDiscipline == Disciplined(call.ops, FALSE, FALSE)

\* C24: a call that got both locks and changed the schedule and the channel
\* returned
C24_Witness ==
    /\ call.exit = "done"
    /\ call.ops = <<"Check", "GetChannelsWrite", "GetSchedulesWrite", "Processed",
                    "SchedulesRemove(true)", "ChannelsRemove(true)">>

\* C25: a section that Check accepted and that left before the loop, for the
\* clock, a lock, the channel, the precedence of 0x5X or BeginSegmentTransfer,
\* is not marked: Processed was not called and Check accepts the same section
\* again.  A section number gets marked only by a call that reaches
\* Processed, and it is the number of that call's section.
C25_AbortedSectionComesAgain ==
    [][/\ call'.exit \in AbortExits /\ call'.process =>
            /\ ~Has(call'.ops, "Processed")
            /\ EitTablesCheckResult(eitTables', call'.section.tid, call'.section.version,
                                    call'.section.sectionNumber)
       /\ \A i \in DOMAIN eitTables.sectionSyncer :
             LET old == eitTables.sectionSyncer[i]
                 new == eitTables'.sectionSyncer[i]
                 marked == IF new.version = old.version THEN new.seen \ old.seen
                           ELSE new.seen
             IN  marked # {} =>
                   /\ Has(call'.ops, "Processed")
                   /\ call'.exit = "done"
                   /\ i = Index(call'.section.tid)
                   /\ call'.section.sectionNumber \in marked]_vars

\* C25: a section of the version its table has, not processed yet, left
\* before the loop; Check would accept it again
C25_Witness ==
    /\ call.exit \in AbortExits
    /\ call.process
    /\ eitTables.sectionSyncer[Index(call.section.tid)].version = call.section.version
    /\ call.section.sectionNumber \notin eitTables.sectionSyncer[Index(call.section.tid)].seen
    /\ EitTablesCheckResult(eitTables, call.section.tid, call.section.version,
                            call.section.sectionNumber)

\* how many events of the sequence have the id, and the table id as well
WithId(events, id) == Count(events, LAMBDA e : e.eventID = id)

WithIdOfTable(events, id, tid) ==
    Count(events, LAMBDA e : e.eventID = id /\ e.tableID = tid)

\* C26: an event whose table id is at most 0x4E keeps its table id as long
\* as it is in the schedule, whatever sections arrive; and an event that a
\* section makes, or finds with a table id above 0x4E and writes, has the
\* table id of that section afterwards.
C26_TableIdKept ==
    [][/\ \A k \in DOMAIN schedule.events :
             LET e == schedule.events[k]
             IN  e.tableID <= TidPresentFollowing =>
                   \/ WithIdOfTable(schedule'.events, e.eventID, e.tableID)
                        >= WithIdOfTable(schedule.events, e.eventID, e.tableID)
                   \/ /\ call'.pruned # <<>>
                      /\ WithId(schedule'.events, e.eventID) < WithId(schedule.events, e.eventID)
       /\ call'.exit = "done" /\ (call'.process \/ call'.section.tid = TidPresentFollowing) =>
             \A i \in DOMAIN call'.found :
                LET r == Retained(call'.section, NowT)[i]
                    f == call'.found[i]
                IN  f.position = 0 \/ f.event.tableID > TidPresentFollowing =>
                      \/ \E j \in DOMAIN schedule'.events :
                            /\ schedule'.events[j].eventID = r.eventId
                            /\ schedule'.events[j].startTime = r.startTime
                            /\ schedule'.events[j].tableID = call'.section.tid
                      \/ call'.pruned # <<>>]_vars

\* C26: a section of table 0x4E found the event with table id 0 by its id
\* and gave it another start time; the event still has table id 0
C26_Witness ==
    /\ call.exit = "done"
    /\ call.section.tid = TidPresentFollowing
    /\ Len(call.found) = 1
    /\ call.found[1].position # 0
    /\ call.found[1].event.tableID = 0
    /\ call.found[1].event.startTime # call.section.events[1].startTime
    /\ \E j \in DOMAIN schedule.events :
          /\ schedule.events[j].eventID = call.section.events[1].eventId
          /\ schedule.events[j].startTime = call.section.events[1].startTime
          /\ schedule.events[j].tableID = 0

\* C29: SetStatus and Process exclude each other: while a thread is in
\* SetStatus no thread is in Process, and the cEitTables are done away with
\* only then.  When SetStatus returns they are all gone, so that Check
\* accepts every section of every table and version as one never seen.
C29_SetStatusExcludesProcess ==
    [][/\ mutex' = "SetStatus" => thread'.pc = "idle"
       /\ (eitTables # EitTablesInit /\ eitTables' = EitTablesInit) =>
            (mutex = "SetStatus" /\ thread.pc = "idle")
       /\ (mutex = "SetStatus" /\ mutex' = "free") =>
            /\ eitTables' = EitTablesInit
            /\ \A tid \in {TidPresentFollowing, TidSchedActualFirst, TidSchedOtherFirst} :
                  \A version \in 0..31, n \in 0..MaxSection :
                     EitTablesCheckResult(eitTables', tid, version, n)]_vars

\* C29: after a SetStatus the present section arrived again, found the event
\* it had made before, and was processed like a section never seen
C29_Witness ==
    /\ thread.pc = "return"
    /\ call.exit = "done"
    /\ call.section.tid = TidPresentFollowing
    /\ call.process
    /\ Has(call.ops, "Processed")
    /\ Len(call.found) = 1
    /\ call.found[1].position # 0
    /\ call.found[1].event.version = call.section.version

\* the step is the test of thread i, lines 473..492
IsTdtTest(i) == tdtThreads[i].pc = "test" /\ tdtThreads'[i].pc = "update"

\* C27 as claimed: on one broadcast time the system clock is corrected at
\* most once.
C27_AsClaimed ==
    [][\A i \in TdtThreadIds :
          IsTdtTest(i) /\ tdtCall'.action # "none" => tdtThreads[i].dvbtim \notin tdtActed]_vars

\* C27: a thread is between its test of oldTime and oldDiff and its update
\* of them only while it holds the mutex, so that no other thread tests or
\* updates them in between; and a call whose broadcast time is the one
\* recorded last does not correct the system clock.
C27_TestAndUpdateAtomic ==
    [][\A i \in TdtThreadIds :
          /\ tdtThreads'[i].pc \in {"test", "update"} => tdtMutex' = i
          /\ tdtThreads[i].pc \in {"test", "update"} =>
                /\ \A j \in TdtThreadIds \ {i} : ~IsTdtTest(j)
                /\ (oldTime' # oldTime \/ oldDiff' # oldDiff) =>
                      /\ tdtThreads[i].pc = "update"
                      /\ oldTime' = tdtThreads[i].dvbtim
                      /\ oldDiff' = tdtThreads[i].diff
          /\ IsTdtTest(i) /\ tdtThreads[i].dvbtim = oldTime =>
                /\ tdtCall'.action = "none"
                /\ clock' = clock
                /\ lastAdj' = lastAdj
                /\ tdtActed' = tdtActed]_vars

\* C27: two threads read the same broadcast time and the same diff; the
\* first corrected the clock, the second found its time recorded and did not
C27_Witness ==
    \E i \in TdtThreadIds :
       /\ tdtThreads[i].pc = "update"
       /\ tdtThreads[i].dvbtim = oldTime
       /\ tdtThreads[i].diff = oldDiff
       /\ tdtThreads[i].dvbtim \in tdtActed
       /\ tdtCall.action = "none"
       /\ tdtCall.dvbtim = tdtThreads[i].dvbtim

====
